---- MODULE Spec2Model ----
(***************************************************************************)
(* The protocol parser of the NRW Landtag session protocols                *)
(* (src/parse_data.py): boundary detection, the paragraph walk of          *)
(* parse_protocol with its speaker sections, and process_protocol.         *)
(*                                                                         *)
(* Texts are sequences of character tokens.  An ASCII character is its own *)
(* token; the other characters of the source are named:                    *)
(*   a: o: u: A: O: U: ss e'   the letters ae oe ue AE OE UE sz e-acute     *)
(*   endash emdash nbhyphen    U+2013 U+2014 U+2011                        *)
(*   lsquo rsquo ldquo rdquo lowquote ellipsis                             *)
(*                             U+2018 U+2019 U+201C U+201D U+201E U+2026   *)
(*   shy tab nl nbsp dquote    soft hyphen, white space, double quote      *)
(* Python's None is the empty tuple and a present value v is <<v>>, except *)
(* for speaker_role, whose None is the string "None", and for the counters *)
(* and node references, whose None is 0.                                   *)
(***************************************************************************)
EXTENDS Naturals, Sequences, FiniteSets

None == <<>>
Some(v) == <<v>>

Range(f) == {f[i] : i \in DOMAIN f}

(***************************************************************************)
(* Characters                                                              *)
(***************************************************************************)
AsciiUpper == <<"A","B","C","D","E","F","G","H","I","J","K","L","M",
                "N","O","P","Q","R","S","T","U","V","W","X","Y","Z">>
AsciiLower == <<"a","b","c","d","e","f","g","h","i","j","k","l","m",
                "n","o","p","q","r","s","t","u","v","w","x","y","z">>
UpperLetters == AsciiUpper \o <<"A:","O:","U:">>
LowerLetters == AsciiLower \o <<"a:","o:","u:">>
Digits == {"0","1","2","3","4","5","6","7","8","9"}
Letters == Range(UpperLetters) \cup Range(LowerLetters) \cup {"ss","e'"}
\* \w of a str pattern: letters, digits and the underscore
WordChars == Letters \cup Digits \cup {"_"}
\* \s
WhiteSpace == {" ","tab","nl","nbsp"}

LowerMap == [c \in Range(UpperLetters) |->
               LowerLetters[CHOOSE i \in DOMAIN UpperLetters : UpperLetters[i] = c]]
UpperMap == [c \in Range(LowerLetters) |->
               UpperLetters[CHOOSE i \in DOMAIN LowerLetters : LowerLetters[i] = c]]
\* str.lower() and str.upper() on one character
LowerChar(c) == IF c \in DOMAIN LowerMap THEN LowerMap[c] ELSE c
UpperChar(c) == IF c \in DOMAIN UpperMap THEN UpperMap[c] ELSE c

(***************************************************************************)
(* Regular expressions, matched the way Python's re matches them: a        *)
(* backtracking search that tries the alternatives in priority order       *)
(* (greedy repetition: longest first) and takes the first that succeeds.   *)
(* M gives every way a pattern matches from a position, in that order.     *)
(***************************************************************************)
Chr(cs) == [t |-> "chr", cs |-> cs]
Dot == [t |-> "dot"]
Lit(w) == [t |-> "lit", w |-> w]
Cat(rs) == [t |-> "cat", rs |-> rs]
Alt(rs) == [t |-> "alt", rs |-> rs]
Opt(r) == [t |-> "opt", r |-> r]
Star(r) == [t |-> "star", r |-> r]
Plus(r) == [t |-> "plus", r |-> r]
Grp(n, r) == [t |-> "grp", n |-> n, r |-> r]

\* a match in progress: the next position to read and the groups' spans
MatchStart(i) == [pos |-> i, g |-> <<<<0, 0>>, <<0, 0>>, <<0, 0>>, <<0, 0>>>>]

InClass(c, cs, ic) ==
    \/ c \in cs
    \/ ic /\ (LowerChar(c) \in cs \/ UpperChar(c) \in cs)

SameChar(c, d, ic) == c = d \/ (ic /\ LowerChar(c) = LowerChar(d))

HasAt(s, i, w, ic) ==
    /\ i + Len(w) - 1 <= Len(s)
    /\ \A k \in 1..Len(w) : SameChar(s[i + k - 1], w[k], ic)

\* whether the character at position j of s is one that r, a character
\* class or the dot, matches
OneChar(r, s, j, ic) ==
    /\ j <= Len(s)
    /\ IF r.t = "chr" THEN InClass(s[j], r.cs, ic) ELSE s[j] # "nl"
\* the position after the longest run of such characters from position i
RunEnd(r, s, i, ic) ==
    CHOOSE e \in i..(Len(s) + 1) :
        /\ \A j \in i..(e - 1) : OneChar(r, s, j, ic)
        /\ ~OneChar(r, s, e, ic)

RECURSIVE M(_, _, _, _), FlatM(_, _, _, _)
M(r, s, st, ic) ==
    CASE r.t = "chr" ->
           IF st.pos <= Len(s) /\ InClass(s[st.pos], r.cs, ic)
           THEN <<[st EXCEPT !.pos = @ + 1]>> ELSE <<>>
      [] r.t = "dot" ->
           IF st.pos <= Len(s) /\ s[st.pos] # "nl"
           THEN <<[st EXCEPT !.pos = @ + 1]>> ELSE <<>>
      [] r.t = "lit" ->
           IF HasAt(s, st.pos, r.w, ic)
           THEN <<[st EXCEPT !.pos = @ + Len(r.w)]>> ELSE <<>>
      [] r.t = "cat" ->
           IF r.rs = <<>> THEN <<st>>
           ELSE FlatM(Cat(Tail(r.rs)), s, M(Head(r.rs), s, st, ic), ic)
      [] r.t = "alt" ->
           IF r.rs = <<>> THEN <<>>
           ELSE M(Head(r.rs), s, st, ic) \o M(Alt(Tail(r.rs)), s, st, ic)
      [] r.t = "opt" -> M(r.r, s, st, ic) \o <<st>>
      [] r.t = "star" ->
           IF r.r.t \in {"chr", "dot"}
           THEN \* the longest run first, then every shorter one
                LET e == RunEnd(r.r, s, st.pos, ic)
                IN  [k \in 1..(e - st.pos + 1) |-> [st EXCEPT !.pos = e - k + 1]]
           ELSE FlatM(r, s, SelectSeq(M(r.r, s, st, ic), LAMBDA x : x.pos > st.pos), ic)
                  \o <<st>>
      [] r.t = "plus" -> FlatM(Star(r.r), s, M(r.r, s, st, ic), ic)
      [] r.t = "grp" ->
           LET ms == M(r.r, s, st, ic)
           IN  [k \in DOMAIN ms |-> [ms[k] EXCEPT !.g[r.n] = <<st.pos, ms[k].pos>>]]
FlatM(r, s, sts, ic) ==
    IF sts = <<>> THEN <<>>
    ELSE IF Len(sts) = 1 THEN M(r, s, sts[1], ic)
    ELSE LET h == Len(sts) \div 2
         IN  FlatM(r, s, SubSeq(sts, 1, h), ic) \o FlatM(r, s, SubSeq(sts, h + 1, Len(sts)), ic)

\* pattern.match(s): None, or the first match from the start of s
re_match(r, s, ic) ==
    LET ms == M(r, s, MatchStart(1), ic)
    IN  IF ms = <<>> THEN None ELSE Some(ms[1])

\* pattern.search(s): None, or the first match from the leftmost position
\* that has one
RECURSIVE SearchFrom(_, _, _, _)
SearchFrom(r, s, i, ic) ==
    IF i > Len(s) + 1 THEN None
    ELSE LET ms == M(r, s, MatchStart(i), ic)
         IN  IF ms # <<>> THEN Some(ms[1]) ELSE SearchFrom(r, s, i + 1, ic)
re_search(r, s, ic) == SearchFrom(r, s, 1, ic)

\* match.group(n) and text[match.end():]
Group(s, m, n) == SubSeq(s, m.g[n][1], m.g[n][2] - 1)
AfterMatch(s, m) == SubSeq(s, m.pos, Len(s))

(***************************************************************************)
(* The patterns of src/parse_data.py                                       *)
(***************************************************************************)
D2 == Cat(<<Chr(Digits), Chr(Digits)>>)
BEGIN_RE == Alt(<<Lit(<<"B","e","g","i","n","n",":">>),
                  Cat(<<Lit(<<"B","e","g","i","n","n"," ">>), D2, Chr({":", "."}), D2>>),
                  Lit(<<"S","e","i","t","e"," ","3","4","2","7">>)>>)
END_RE == Alt(<<Lit(<<"S","c","h","l","u","s","s",":">>), Lit(<<"E","n","d","e",":">>), Lit(<<"_","_","_","_","_","_","_","_","_","_">>)>>)
\* '((\d\d)\.(\d\d)\.(\d\d\d\d))'
DATE_RE == Grp(1, Cat(<<Grp(2, D2), Lit(<<".">>), Grp(3, D2), Lit(<<".">>),
                        Grp(4, Cat(<<D2, D2>>))>>))
PAGE_RE == Cat(<<Lit(<<"S","e","i","t","e"," ">>), Plus(Chr(Digits))>>)

\* [a-z\-{endash}-{lowquote}(){ellipsis}?]: the range U+2013..U+201E holds the
\* dashes and quotation marks named here
NonIntroFirstChar ==
    Range(AsciiLower) \cup
    {"-", "endash", "emdash", "lsquo", "rsquo", "ldquo", "rdquo", "lowquote",
     "(", ")", "ellipsis", "?"}
NonIntroPhrasesA ==
    <<<<"I","c","h"," ">>, <<"D","i","e"," ">>, <<"D","e","r"," ">>, <<"D","a","s"," ">>, <<"D","i","e","s","e","s"," ">>, <<"M","i","t"," ">>, <<"A","u","c","h"," ">>,
      <<"E","s"," ">>, <<"W","i","r"," ">>, <<"E","i","n"," ">>, <<"E","i","n","e"," ">>, <<"H","i","e","r"," ">>, <<"M","e","i","n","e"," ">>,
      <<"B","i","t","t","e"," ">>, <<"A","b","e","r"," ">>, <<"F","r","a","u"," ">>, <<"H","e","r","r"," ">>, <<"N","a","c","h"," ">>, <<"G","e","m","a:","ss"," ">>,
      <<"F","u:","r"," ">>, <<"Z","u","r"," ">>, <<"I","n"," ">>, <<"I","h","n","e","n"," ">>>>
\* 'Art. ': the dot is the pattern's any-character
ArtPhrase == Cat(<<Lit(<<"A","r","t">>), Dot, Lit(<<" ">>)>>)
NonIntroPhrasesB ==
    <<<<"G","i","b","t"," ">>, <<"F","u:","r"," ">>, <<"L","i","e","b","e"," ">>, <<"L","i","e","b","e","r"," ">>, <<"D","a"," ">>, <<"S","o"," ">>, <<"A","l","s"," ">>,
      <<"J","e","t","z","t"," ">>, <<"W","i","r","d"," ">>, <<"H","i","e","r","z","u"," ">>,
      <<"D","i","e","s","e","r"," ">>, <<"D","i","e","s","e"," ">>, <<"D","a","n","n"," ">>, <<"D","e","n","n"," ">>,
      <<"G","e","s","e","t","z"," ">>, <<"B","e","a","n","t","w","o","r","t","u","n","g"," ">>, <<"Z","u"," ","d","e","m"," ">>, <<"K","u","r","z"," ","e","i","n","m","a","l"," ">>,
      <<"W","e","r","b","e","s","e","n","d","u","n","g"," ">>,
      <<"G","r","u:","n","e","n"," ","f","a","l","l","e","n"," ">>, <<"I","n","t","e","r","v","i","e","w"," ">>, <<"S","i","e"," ">>, <<"U","m"," ","m","i","t"," ">>,
      <<"W","e","s","t","f","a","l","e","n"," ">>, <<"F","r","a","g","e",":"," ">>,
      <<"V","i","e","l","e","n"," ","D","a","n","k"," ">>, <<"W","i","c","h","t","i","g","e","s"," ">>, <<"E","r","s","t","e","n","s",":"," ">>, <<"M","u","s","t","e","r"," ","a","b">>>>
Lits(ws) == [k \in DOMAIN ws |-> Lit(ws[k])]
NON_SPEAKER_INTRO_RE ==
    Alt(<<Chr(NonIntroFirstChar)>> \o Lits(NonIntroPhrasesA) \o <<ArtPhrase>>
        \o Lits(NonIntroPhrasesB))

\* NAME_DEF: [\w\-{nbhyphen}.{rsquo}' ]+
NameChars == WordChars \cup {"-", "nbhyphen", ".", "rsquo", "'", " "}
NAME_DEF == Plus(Chr(NameChars))
FootnoteMark == Opt(Lit(<<"*",")">>))
OptSpace == Opt(Lit(<<" ">>))
SPEAKER_NAME_RE ==
    Cat(<<Grp(1, NAME_DEF), FootnoteMark, OptSpace,
          Opt(Cat(<<Lit(<<"(">>), Plus(Chr(WordChars)), Lit(<<" ">>),
                    Plus(Chr(WordChars \cup {" "})), Lit(<<")">>)>>)),
          OptSpace, Lit(<<":">>)>>)
SPEAKER_PARTY_NAME_RE ==
    Cat(<<Grp(1, NAME_DEF), FootnoteMark, OptSpace,
          Grp(2, Alt(<<Cat(<<Chr({"(", "["}), Plus(Chr(WordChars)), Chr({")", "]"})>>),
                       Cat(<<Chr({"(", "["}), Plus(Chr(WordChars))>>)>>)),
          OptSpace, Opt(Lit(<<":">>))>>)
TitleChars == WordChars \cup {"-", "nbhyphen", ".", ",", "(", ")", " "}
MINISTER_NAME_RE ==
    Cat(<<Grp(1, NAME_DEF), FootnoteMark, OptSpace, Lit(<<",">>), FootnoteMark, OptSpace,
          Grp(2, Cat(<<Star(Chr(WordChars)), Lit(<<"m","i","n","i","s","t","e","r">>), Star(Chr(TitleChars))>>)),
          Lit(<<":">>)>>)
OTHER_ROLE_NAME_RE ==
    Cat(<<Grp(1, NAME_DEF), FootnoteMark, OptSpace, Lit(<<",">>), FootnoteMark, OptSpace,
          Grp(2, Cat(<<Star(Chr(WordChars)), Lit(<<"p","r","a:","s","i","d","e","n","t">>), Star(Chr(TitleChars))>>)),
          Lit(<<":">>)>>)

\* 'geschaeftsfuehrender? '
Acting == Cat(<<Lit(<<"g","e","s","c","h","a:","f","t","s","f","u:","h","r","e","n","d","e">>), Opt(Lit(<<"r">>)), Lit(<<" ">>)>>)
\* 'erster? '
First == Cat(<<Lit(<<"e","r","s","t","e">>), Opt(Lit(<<"r">>)), Lit(<<" ">>)>>)
RestOfName == Cat(<<Lit(<<" ">>), Grp(2, Plus(Dot))>>)
PRESIDENT_RE ==
    Cat(<<Grp(1, Cat(<<Opt(Alt(<<Acting, Lit(<<"a","l","t","e","r","s">>), Lit(<<"m","i","n","i","s","t","e","r">>)>>)),
                       Lit(<<"p","r","a:","s","i","d","e","n","t">>), Opt(Lit(<<"i","n">>))>>)),
          RestOfName>>)
VICE_PRESIDENT_RE ==
    Cat(<<Grp(1, Cat(<<Opt(Alt(<<Cat(<<Acting, First>>), Lit(<<"m","i","n","i","s","t","e","r">>)>>)),
                       Lit(<<"v","i","z","e","p","r","a:","s","i","d","e","n","t">>), Opt(Lit(<<"i","n">>))>>)),
          RestOfName>>)
SPEAKER_IS_CHAIR_RE ==
    Cat(<<Grp(1, Cat(<<Opt(Cat(<<Acting, First>>)), Opt(Lit(<<"v","i","z","e">>)),
                       Lit(<<"p","r","a:","s","i","d","e","n","t">>), Opt(Lit(<<"i","n">>))>>)),
          RestOfName>>)
MINISTER_RE ==
    Cat(<<Grp(1, Cat(<<Opt(Acting), Lit(<<"m","i","n","i","s","t","e","r">>), Opt(Lit(<<"i","n">>))>>)),
          RestOfName>>)

(***************************************************************************)
(* Globals                                                                 *)
(***************************************************************************)
\* Verbosity
verbose == 0
\* Remove citation marks ?
REMOVE_CITATION_MARKS == FALSE

\* Typo fixes to apply in typo_fixes(), in the order of the dictionary:
\* <<original string, substitution string>>
TYPO_FIXES ==
    <<
      <<<<"O","l","i","v","e","r"," ","W","i","t","t","k","e",",",","," ","M","i","n","i","s","t","e","r"," ","f","u:","r"," ","B","a","u","e","n"," ","u","n","d"," ","V","e","r","k","e","h","r",":">>,
        <<"O","l","i","v","e","r"," ","W","i","t","t","k","e",","," ","M","i","n","i","s","t","e","r"," ","f","u:","r"," ","B","a","u","e","n"," ","u","n","d"," ","V","e","r","k","e","h","r",":">>>>,
      <<<<"M","i","c","h","a","e","l"," ","B","r","e","u","e","r",","," ","M","i","n","i","s","t","e","r"," ","f","u:","r"," ","B","u","n","d","e","s","?"," ","u","n","d"," ","E","u","r","o","p","a","a","n","g","e","l","e","g","e","n","h","e","i","t","e","n",":">>,
        <<"M","i","c","h","a","e","l"," ","B","r","e","u","e","r",","," ","M","i","n","i","s","t","e","r"," ","f","u:","r"," ","B","u","n","d","e","s","-"," ","u","n","d"," ","E","u","r","o","p","a","a","n","g","e","l","e","g","e","n","h","e","i","t","e","n",":">>>>,
      <<<<"S","v","e","n","j","a"," ","S","c","h","u","l","z","e",","," ","M","i","n","i","s","t","e","r","i","n"," ","f","u:","r"," ","I","n","n","o","v","a","t","i","o","n",","," ","W","i","s","s","e","n","s","c","h","a","f","t"," ","u","n","d"," ","F","o","r","s","c","h","u","n","g"," ">>,
        <<"S","v","e","n","j","a"," ","S","c","h","u","l","z","e",","," ","M","i","n","i","s","t","e","r","i","n"," ","f","u:","r"," ","I","n","n","o","v","a","t","i","o","n",","," ","W","i","s","s","e","n","s","c","h","a","f","t"," ","u","n","d"," ","F","o","r","s","c","h","u","n","g",":">>>>,
      <<<<"V","i","z","e","p","r","a:","s","i","d","e","n","t","i","n"," ","A","n","g","e","l","a"," ","F","r","e","i","m","u","t","h"," ">>,
        <<"V","i","z","e","p","r","a:","s","i","d","e","n","t","i","n"," ","A","n","g","e","l","a"," ","F","r","e","i","m","u","t","h",":"," ">>>>,
      <<<<"S","u","s","a","n","a"," ","D","o","s"," ","S","a","n","t","o","s"," ","H","e","r","r","m","a","n","n">>,
        <<"S","u","s","a","n","a"," ","d","o","s"," ","S","a","n","t","o","s"," ","H","e","r","r","m","a","n","n">>>>,
      <<<<"M","i","n","i","s","t","e","r"," ","U","h","l","e","n","b","e","r","g">>,
        <<"M","i","n","i","s","t","e","r"," ","E","c","k","h","a","r","d"," ","U","h","l","e","n","b","e","r","g">>>>,
      <<<<"C","a","r","i","n","a"," ","G","o:","d","e","k","e">>,
        <<"C","a","r","i","n","a"," ","G","o:","d","e","c","k","e">>>>,
      <<<<"C","a","r","i","n","a",":"," ">>,
        <<"V","i","z","e","p","r","a:","s","i","d","e","n","t","i","n"," ","C","a","r","i","n","a"," ","G","o:","d","e","c","k","e",":"," ">>>>,
      <<<<"V","i","z","e","p","r","a:","s","i","d","e","n","t","i","n"," ","C","a","r","i","n","a",":"," ">>,
        <<"V","i","z","e","p","r","a:","s","i","d","e","n","t","i","n"," ","C","a","r","i","n","a"," ","G","o:","d","e","c","k","e",":"," ">>>>,
      <<<<"V","i","z","e","p","r","a:","s","i","d","e","n","t","i","n"," ","C","a","r","i","n","a"," ","G","o:","d","e","k","e">>,
        <<"V","i","z","e","p","r","a:","s","i","d","e","n","t","i","n"," ","C","a","r","i","n","a"," ","G","o:","d","e","c","k","e">>>>,
      <<<<"B","r","i","g","i","t","t","e"," ","D","rsquo","m","o","c","h","-","S","c","h","w","e","r","e","n">>,
        <<"B","r","i","g","i","t","t","e"," ","D","m","o","c","h","-","S","c","h","w","e","r","e","n">>>>,
      <<<<"E","c","k","a","r","t"," ","U","h","l","e","n","b","e","r","g">>,
        <<"E","c","k","h","a","r","d"," ","U","h","l","e","n","b","e","r","g">>>>,
      <<<<"M","a","r","g","r","e","t"," ","V","o","s","s","e","l","e","r">>,
        <<"M","a","r","g","r","e","t"," ","V","o","ss","e","l","e","r">>>>,
      <<<<"P","r","a:","s","i","d","e","n","t"," ","A","n","d","r","e'",":"," ">>,
        <<"P","r","a:","s","i","d","e","n","t"," ","A","n","d","r","e'"," ","K","u","p","e","r",":"," ">>>>,
      <<<<"V","i","z","e","p","r","a:","s","i","d","e","n","t"," ","D","r","."," ","P","a","p","k","e",":"," ">>,
        <<"V","i","z","e","p","r","a:","s","i","d","e","n","t"," ","D","r","."," ","G","e","r","h","a","r","d"," ","P","a","p","k","e",":"," ">>>>,
      <<<<"V","e","r","e","n","a"," ","S","c","h","a:","f","f","e","*",")">>,
        <<"V","e","r","e","n","a"," ","S","c","h","a:","f","f","e","r","*",")">>>>,
      <<<<"H","o","r","s","t"," ","E","n","g","e","*",")","l"," ","(","F","D","P",")",":">>,
        <<"H","o","r","s","t"," ","E","n","g","e","l","*",")"," ","(","F","D","P",")",":">>>>,
      <<<<"A","r","m","i","n"," ","L","a","s","c","h","e","t","*",")"," ","M","i","n","i","s","t","e","r"," ","f","u:","r"," ","G","e","n","e","r","a","t","i","o","n","e","n",","," ","F","a","m","i","l","i","e",","," ","F","r","a","u","e","n"," ","u","n","d"," ","I","n","t","e","g","r","a","t","i","o","n",":">>,
        <<"A","r","m","i","n"," ","L","a","s","c","h","e","t","*",")",","," ","M","i","n","i","s","t","e","r"," ","f","u:","r"," ","G","e","n","e","r","a","t","i","o","n","e","n",","," ","F","a","m","i","l","i","e",","," ","F","r","a","u","e","n"," ","u","n","d"," ","I","n","t","e","g","r","a","t","i","o","n",":">>>>,
      <<<<"W","i","b","k","e"," ","B","r","e","m","*",")">>,
        <<"W","i","b","k","e"," ","B","r","e","m","s">>>>,
      <<<<"H","u","b","e","r","t","u","s"," ","F","e","h","r","i","n","g",")"," ","(","C","D","U",")",":">>,
        <<"H","u","b","e","r","t","u","s"," ","F","e","h","r","i","n","g"," ","(","C","D","U",")",":">>>>,
      <<<<"H","e","i","k","o"," ","H","e","n","d","r","i","k","s",")"," ","(","C","D","U",")",":">>,
        <<"H","e","i","k","o"," ","H","e","n","d","r","i","k","s"," ","(","C","D","U",")",":">>>>,
      <<<<"F","r","a","n","k"," ","H","e","r","r","m","a","n","n"," ","P","I","R","A","T","E","N",")",":">>,
        <<"F","r","a","n","k"," ","H","e","r","r","m","a","n","n"," ","(","P","I","R","A","T","E","N",")",":">>>>,
      <<<<"S","i","g","r","i","d"," ","B","e","e","r"," ","G","R","U:","N","E",")",":">>,
        <<"S","i","g","r","i","d"," ","B","e","e","r"," ","(","G","R","U:","N","E",")",":">>>>,
      <<<<"D","r","."," ","R","o","b","e","r","t"," ","O","r","t","h"," ","F","D","P",")",":">>,
        <<"D","r","."," ","R","o","b","e","r","t"," ","O","r","t","h"," ","(","F","D","P",")",":">>>>,
      <<<<"R","a","i","n","e","r"," ","D","e","p","p","e"," ","C","D","U",")",":">>,
        <<"R","a","i","n","e","r"," ","D","e","p","p","e"," ","(","C","D","U",")",":">>>>,
      <<<<"R","a","l","f"," ","W","i","t","z","e","l"," ","F","D","P",")",":">>,
        <<"R","a","l","f"," ","W","i","t","z","e","l"," ","(","F","D","P",")",":">>>>,
      <<<<"E","i","s","k","i","r","c","h"," ","(","S","P","D",")",":">>,
        <<"T","h","o","m","a","s"," ","E","i","s","k","i","r","c","h"," ","(","S","P","D",")",":">>>>
    >>

\* str.lower()
LowerStr(s) == [i \in DOMAIN s |-> LowerChar(s[i])]
\* Create a set from sequence, with all entries converted to lower case
lowercase_set(names) == {LowerStr(x) : x \in names}

\* Sets of paragraph classes used to parse the protocols
SPEAKER_INTRO_CLASSES ==
    lowercase_set({<<"r","R","e","d","n","e","r","k","o","p","f">>, <<"r","R","e","d","n","e","r","k","o","p","f","0">>, <<"f","Z","w","i","s","c","h","e","n","f","r","a","g","e">>})
SPEECH_CLASSES ==
    lowercase_set({
      <<"a","S","t","a","n","d","a","r","d","a","b","s","a","t","z">>,
      <<"a","A","b","s","a","t","z">>,
      <<"t","-","N","-","O","N","u","m","m","e","r","i","e","r","u","n","g","o","h","n","e","S","e","i","t","e","n","z","a","h","l">>,
      <<"t","-","D","-","S","A","n","t","r","a","g","e","t","c","m","i","t","S","e","i","t","e","n","z","a","h","l">>,
      <<"t","-","D","-","O","A","n","t","r","a","g","e","t","c","o","h","n","e","S","e","i","t","e","n","z","a","h","l">>,
      <<"t","-","I","-","V","I","n","V","e","r","b","i","n","d","u","n","g","m","i","t">>,
      <<"t","-","O","-","N","O","h","n","e","N","u","m","m","e","r","i","e","r","u","n","g","o","h","n","e","S","e","i","t","e","n","z","a","h","l">>,
      <<"t","1","A","b","s","a","t","z","n","a","c","h","T","O","P">>,
      <<"t","-","M","-","b","e","r","s","c","h","r","i","f","t","M","n","d","l","i","c","h","e","A","n","f","r","a","g","e">>,
      <<"t","-","M","-","T","T","e","x","t","M","n","d","l","i","c","h","e","A","n","f","r","a","g","e">>,
      <<"t","-","N","-","S","N","u","m","m","e","r","i","e","r","u","n","g","m","i","t","S","e","i","t","e","n","z","a","h","l">>,
      <<"p","P","u","n","k","t","g","l","i","e","d","e","r","u","n","g">>,
      <<"t","-","M","-","E","T","e","x","t","M","n","d","l","i","c","h","e","E","i","n","r","c","k","u","n","g">>,
      <<"1","T","a","g","e","s","o","r","d","n","u","n","g","s","g","l","i","e","d","e","r","u","n","g">>,
      <<"2","T","a","g","e","s","o","r","d","n","u","n","g","s","g","l","i","e","d","e","r","u","n","g">>,
      <<"3","T","a","g","e","s","o","r","d","n","u","n","g","s","g","l","i","e","d","e","r","u","n","g">>,
      <<"t","E","i","n","r","c","k","T","a","g","e","s","o","r","d","n","u","n","g">>,
      <<"m","M","n","d","l","i","c","h","e","A","n","f","r","a","g","e">>,
      <<"p","Z","i","t","a","t","P","u","n","k","t","g","l","i","e","d","e","r","u","n","g">>,
      <<"d","A","n","t","r","a","g","D","r","u","c","k","s","a","c","h","e">>,
      <<"v","V","e","r","f","a","s","s","e","r","M","n","d","l","i","c","h","e","n","A","n","f","r","a","g","e">>,
      <<"f","b","e","r","s","c","h","r","i","f","t","M","n","d","l","i","c","h","e","A","n","f","r","a","g","e">>,
      <<"k","T","e","x","t","M","n","d","l","i","c","h","e","A","n","f","r","a","g","e">>,
      <<"f","b","e","r","s","c","h","r","i","f","t","M","n","d","l","i","c","h","e","A","n","f","r","a","g","e","r","a","g","e">>,
      <<"n","N","u","m","m","e","r","i","e","r","i","n","g","A","u","f","z","h","l","u","n","g">>,
      <<"e","T","E","i","n","g","e","r","u","e","c","k","t","e","r","T","O","P">>,
      <<"v","i","n","V","e","r","b","i","n","d","u","n","g">>,
      <<"M","s","o","N","o","r","m","a","l">>,
      <<"M","s","o","L","i","s","t","B","u","l","l","e","t">>,
      <<"s","S","c","h","l","u","s","s">>})
ANNOTATION_CLASSES ==
    lowercase_set({<<"k","K","l","a","m","m","e","r">>, <<"k","K","l","a","m","m","e","r","n">>, <<"w","V","o","r","s","i","t","z","w","e","c","h","s","e","l">>})
CITATION_CLASSES == lowercase_set({<<"z","Z","i","t","a","t">>, <<"e","Z","i","t","a","t","-","E","i","n","r","c","k","u","n","g">>})

\* Sets of speaker_roles
CHAIR_ROLES == {"president", "vice-president"}

(***************************************************************************)
(* Text helpers                                                            *)
(***************************************************************************)
\* text.startswith(prefix)
StartsWith(text, prefix) == HasAt(text, 1, prefix, FALSE)

\* text.lstrip(chars), text.rstrip(chars), text.strip(chars): every leading
\* (trailing) character of the set goes
LStrip(s, cs) ==
    LET n == CHOOSE i \in 0..Len(s) :
                 /\ \A j \in 1..i : s[j] \in cs
                 /\ (i = Len(s) \/ s[i + 1] \notin cs)
    IN  SubSeq(s, n + 1, Len(s))
RStrip(s, cs) ==
    LET n == CHOOSE i \in 0..Len(s) :
                 /\ \A j \in (i + 1)..Len(s) : s[j] \in cs
                 /\ (i = 0 \/ s[i] \notin cs)
    IN  SubSeq(s, 1, n)
Strip(s, cs) == RStrip(LStrip(s, cs), cs)

\* RE_CLEAN_TEXT.sub(' ', text): every run of white space becomes one space
\* (the first character of a run becomes the space, the others go)
CollapseSpace(s) ==
    SelectSeq([i \in 1..Len(s) |->
                  IF s[i] \notin WhiteSpace THEN s[i]
                  ELSE IF i > 1 /\ s[i - 1] \in WhiteSpace THEN "" ELSE " "],
              LAMBDA c : c # "")

\* clean_text on a string: soft hyphens removed, white space collapsed,
\* leading and trailing white space stripped
CleanStr(s) ==
    Strip(CollapseSpace(SelectSeq(s, LAMBDA c : c # "shy")), WhiteSpace)
\* Remove all extra whitespace from text (None stays None)
clean_text(text) == IF text = None THEN None ELSE Some(CleanStr(text[1]))

\* len(text.split())
WordCount(s) ==
    Cardinality({i \in 1..Len(s) :
                    s[i] \notin WhiteSpace /\ (i = 1 \/ s[i - 1] \in WhiteSpace)})

\* a typo that is also found one character short
MatchesTypoShort(original, typo) ==
    StartsWith(original, SubSeq(typo, 1, Len(typo) - 1))

\* match(typo), where match = text.startswith was taken from the text
\* typo_fixes was called with (src lines 256 and 258)
MatchesTypo(original, typo) == StartsWith(original, typo)

\* the loop over TYPO_FIXES.items() (src lines 257-259): every typo is
\* looked for at the start of the original text and replaced in the text as
\* it stands
RECURSIVE ApplyFixes(_, _, _)
ApplyFixes(text, original, fixes) ==
    IF fixes = <<>> THEN text
    ELSE LET typo == Head(fixes)[1]
             fix == Head(fixes)[2]
         IN  ApplyFixes(IF MatchesTypo(original, typo)
                        THEN fix \o SubSeq(text, Len(typo) + 1, Len(text))
                        ELSE text,
                        original,
                        Tail(fixes))
\* the correction put in place of the whole text
TypoFixesWholeText(text) ==
    LET S == {k \in DOMAIN TYPO_FIXES : MatchesTypo(text, TYPO_FIXES[k][1])}
    IN  IF S = {} THEN text ELSE TYPO_FIXES[CHOOSE k \in S : TRUE][2]

\* Apply typo fixes to text and return the corrected text
typo_fixes(text) == ApplyFixes(text, text, TYPO_FIXES)

(***************************************************************************)
(* Paragraph parsers.  A paragraph (a Python dict) is a function from its  *)
(* keys to their values.  The key that holds the text, 'speech',           *)
(* 'annotation' or 'citation', is the pair of fields kind and text.        *)
(***************************************************************************)
EmptyDict == [k \in {} |-> k]
\* d.update(m)
Update(d, m) ==
    [k \in DOMAIN d \cup DOMAIN m |-> IF k \in DOMAIN m THEN m[k] ELSE d[k]]

\* the assignments made when a speaker pattern has matched with m
\* (src lines 361-382); second names what the pattern's second group is
TakeMatched(d, text, m, second) ==
    IF m = None THEN d
    ELSE Update(Update(d, [speaker_name |-> Some(Group(text, m[1], 1)),
                           speech |-> Some(AfterMatch(text, m[1]))]),
                IF second = "speaker_party"
                THEN [speaker_party |->
                        Some(Strip(Group(text, m[1], 2), {"(", "[", "]", ")", " "}))]
                ELSE IF second = "speaker_ministry"
                THEN [speaker_ministry |-> Some(Group(text, m[1], 2))]
                ELSE IF second = "speaker_role_descr"
                THEN [speaker_role_descr |-> Some(Group(text, m[1], 2))]
                ELSE EmptyDict)
TakeMatch(d, text, re, second) == TakeMatched(d, text, re_match(re, text, TRUE), second)

\* Match speaker declarations: the four patterns in turn, each overwriting
\* what an earlier one has set (src lines 354-382)
NoSpeaker ==
    [speaker_name |-> None, speaker_party |-> None, speaker_ministry |-> None,
     speaker_role |-> "None", speaker_role_descr |-> None, speech |-> None]
MatchSpeakerFirstWins(tag_text) ==
    TakeMatch(
      TakeMatch(
        TakeMatch(
          TakeMatch(NoSpeaker, tag_text, OTHER_ROLE_NAME_RE, "speaker_role_descr"),
          tag_text, MINISTER_NAME_RE, "speaker_ministry"),
        tag_text, SPEAKER_PARTY_NAME_RE, "speaker_party"),
      tag_text, SPEAKER_NAME_RE, "")
MatchSpeaker(tag_text) ==
    TakeMatch(
      TakeMatch(
        TakeMatch(
          TakeMatch(NoSpeaker, tag_text, SPEAKER_NAME_RE, ""),
          tag_text, SPEAKER_PARTY_NAME_RE, "speaker_party"),
        tag_text, MINISTER_NAME_RE, "speaker_ministry"),
      tag_text, OTHER_ROLE_NAME_RE, "speaker_role_descr")

\* the assignments made when a role prefix has matched with m
\* (src lines 389-403)
TakeRoleMatched(d, full_speaker_name, m, role) ==
    IF m = None THEN d
    ELSE Update(d, [speaker_role |-> role,
                    speaker_role_descr |-> Some(Group(full_speaker_name, m[1], 1)),
                    speaker_name |-> Some(Group(full_speaker_name, m[1], 2))])
TakeRole(d, full_speaker_name, re, role) ==
    TakeRoleMatched(d, full_speaker_name, re_match(re, full_speaker_name, TRUE), role)

\* a captured ministry that leaves the role alone
KeepRole(d) == d

\* src lines 404-405
ForceMinister(d) ==
    IF d.speaker_ministry # None THEN [d EXCEPT !.speaker_role = "minister"] ELSE d
\* src lines 406-407
OtherRole(d) ==
    IF d.speaker_role_descr # None /\ d.speaker_role = "None"
    THEN [d EXCEPT !.speaker_role = "other"] ELSE d

\* Parse role and remove from name (src lines 387-407)
ParseRole(d, full_speaker_name) ==
    OtherRole(
      ForceMinister(
        TakeRole(
          TakeRole(
            TakeRole(d, full_speaker_name, PRESIDENT_RE, "president"),
            full_speaker_name, VICE_PRESIDENT_RE, "vice-president"),
          full_speaker_name, MINISTER_RE, "minister")))

\* a chair that is told by the role alone
SpeakerIsChairByRole(speaker_role, full_speaker_name) == speaker_role \in CHAIR_ROLES

\* src lines 408-412
SpeakerIsChair(speaker_role, full_speaker_name) ==
    /\ speaker_role \in CHAIR_ROLES
    /\ re_match(SPEAKER_IS_CHAIR_RE, full_speaker_name, TRUE) # None

\* Safety check and paragraph data (src lines 414-431)
IntroParagraph(d, speaker_name, speaker_is_chair, meta_data) ==
    [ok |-> TRUE,
     short_name |-> WordCount(speaker_name) = 1,
     d |-> Update([speaker_name |-> Some(speaker_name),
                   speaker_party |-> clean_text(d.speaker_party),
                   speaker_ministry |-> clean_text(d.speaker_ministry),
                   speaker_role |-> d.speaker_role,
                   speaker_role_descr |-> d.speaker_role_descr,
                   speaker_is_chair |-> speaker_is_chair,
                   kind |-> "speech",
                   text |-> clean_text(d.speech)],
                  meta_data)]
IntroWithRole(d, full_speaker_name, meta_data) ==
    IntroParagraph(d, CleanStr(d.speaker_name[1]),
                   SpeakerIsChair(d.speaker_role, full_speaker_name), meta_data)
IntroOf(d, meta_data) ==
    IF d.speaker_name = None
    THEN [ok |-> FALSE, error |-> "Could not match speaker name"]
    ELSE IntroWithRole(ParseRole(d, d.speaker_name[1]), d.speaker_name[1], meta_data)

\* parse_speaker_intro without the test for common errors
ParseSpeakerIntroUnguarded(tag_text, meta_data) == IntroOf(MatchSpeaker(tag_text), meta_data)

\* Parse the speaker_tag's tag_text.  ok = FALSE is the raised ParserError
\* with its message; short_name is the "Speaker name is too short" warning.
parse_speaker_intro(tag_text, meta_data) ==
    \* Catch common errors
    IF re_match(NON_SPEAKER_INTRO_RE, tag_text, FALSE) # None
    THEN [ok |-> FALSE, error |-> "Paragraph is not a true speaker intro"]
    ELSE IntroOf(MatchSpeaker(tag_text), meta_data)

parse_speech_paragraph(tag_text, meta_data) ==
    Update([kind |-> "speech", text |-> Some(tag_text)], meta_data)

parse_annotation_paragraph(tag_text, meta_data) ==
    \* Remove parens
    LET stripped == RStrip(LStrip(tag_text, {"("}), {")"})
    IN  Update([kind |-> "annotation", text |-> clean_text(Some(stripped))], meta_data)

parse_citation_paragraph(tag_text, meta_data) ==
    \* Remove parens and trailing commas
    LET stripped ==
          IF REMOVE_CITATION_MARKS
          THEN RStrip(LStrip(tag_text, {"lowquote", "dquote", "'"}),
                      {"ldquo", "dquote", "'", ","})
          ELSE tag_text
    IN  Update([kind |-> "citation", text |-> clean_text(Some(stripped))], meta_data)

(***************************************************************************)
(* Documents.  The soup is the sequence of its text-bearing nodes in       *)
(* document order; a node is a <p> tag (p = TRUE) with its class attribute *)
(* (None when the tag has none) and its one string, or a string outside    *)
(* any <p>.  doc holds catalogue numbers; NodeAt gives the node.           *)
(***************************************************************************)
P(classes, text) == [p |-> TRUE, class |-> Some(classes), text |-> text]
PNoClass(text) == [p |-> TRUE, class |-> None, text |-> text]
Loose(text) == [p |-> FALSE, class |-> None, text |-> text]

bBeginn == <<"b","B","e","g","i","n","n">>
sSchluss == <<"s","S","c","h","l","u","s","s">>
rRednerkopf == <<"r","R","e","d","n","e","r","k","o","p","f">>
fZwischenfrage == <<"f","Z","w","i","s","c","h","e","n","f","r","a","g","e">>
aStandardabsatz == <<"a","S","t","a","n","d","a","r","d","a","b","s","a","t","z">>
kKlammer == <<"k","K","l","a","m","m","e","r">>
zZitat == <<"z","Z","i","t","a","t">>
MsoNormal == <<"M","s","o","N","o","r","m","a","l">>
xUnbekannt == <<"x","U","n","b","e","k","a","n","n","t">>

Catalogue ==
    <<P(<<bBeginn>>, <<"B","e","g","i","n","n",":"," ","1","0",":","0","3"," ","U","h","r">>),                     \* 1
      P(<<sSchluss>>, <<"S","c","h","l","u","s","s",":"," ","1","7",":","2","0"," ","U","h","r">>),                   \* 2
      P(<<rRednerkopf>>, <<"A","n","n","a"," ","B","e","r","g"," ","(","S","P","D",")",":"," ","H","a","l","l","o",".">>),           \* 3
      P(<<rRednerkopf>>, <<"V","i","z","e","p","r","a:","s","i","d","e","n","t","i","n"," ","E","v","a"," ","K","e","r","n",":"," ","D","a","n","k","e",".">>),  \* 4
      P(<<rRednerkopf>>, <<"I","c","h"," ","b","i","t","t","e"," ","u","m"," ","R","u","h","e",".">>),                \* 5
      P(<<fZwischenfrage>>, <<"(","B","e","i","f","a","l","l",")">>),                      \* 6
      P(<<rRednerkopf>>, <<"Z","w","i","s","c","h","e","n","r","u","f">>),                       \* 7
      P(<<aStandardabsatz>>, <<"G","u","t","e","n"," "," ","T","a","g",".">>),                   \* 8
      P(<<kKlammer>>, <<"(","B","e","i","f","a","l","l",")">>),                            \* 9
      P(<<zZitat>>, <<"Z","i","t","a","t">>),                                  \* 10
      P(<<xUnbekannt>>, <<"T","e","x","t">>),                               \* 11
      P(<<rRednerkopf>>, <<"S","e","i","t","e"," ","1","2">>),                          \* 12
      PNoClass(<<"T","e","x","t">>),                                        \* 13
      P(<<bBeginn>>, <<"P","l","e","n","a","r","p","r","o","t","o","k","o","l","l"," ","1","7","/","3","1"," ","0","1",".","1","2",".","2","0","2","1">>),      \* 14
      P(<<MsoNormal>>, <<"B","e","g","i","n","n"," ","1","0",".","0","3"," ","U","h","r">>),                    \* 15
      Loose(<<"B","e","g","i","n","n",":"," ","1","0",":","0","3"," ","U","h","r">>),                              \* 16
      P(<<sSchluss>>, <<"D","a","n","k","e",".">>),                               \* 17
      P(<<MsoNormal>>, <<"_","_","_","_","_","_","_","_","_","_">>),                          \* 18
      Loose(<<"E","n","d","e",":"," ","1","7",":","2","0"," ","U","h","r">>),                                \* 19
      P(<<xUnbekannt>>, <<" ">>),                                  \* 20
      PNoClass(<<" ">>),                                           \* 21
      P(<<rRednerkopf, aStandardabsatz>>, <<"(","Z","u","r","u","f",")">>),          \* 22
      P(<<rRednerkopf, kKlammer>>, <<"Z","w","i","s","c","h","e","n","r","u","f">>)>>            \* 23

\* the values the parse computes from a node alone, evaluated once per
\* catalogue entry
\* clean_tag_text(tag)
clean_tag_text(tag) == CleanStr(tag.text)
CleanedText == [k \in DOMAIN Catalogue |-> clean_tag_text(Catalogue[k])]
IsPageNumber == [k \in DOMAIN Catalogue |-> re_match(PAGE_RE, CleanedText[k], FALSE) # None]
FixedText == [k \in DOMAIN Catalogue |-> typo_fixes(CleanedText[k])]
IntroResult == [k \in DOMAIN Catalogue |-> parse_speaker_intro(FixedText[k], EmptyDict)]
IsNonIntro ==
    [k \in DOMAIN Catalogue |-> re_match(NON_SPEAKER_INTRO_RE, FixedText[k], FALSE) # None]
HasBeginText == [k \in DOMAIN Catalogue |-> re_search(BEGIN_RE, Catalogue[k].text, FALSE) # None]
HasEndText == [k \in DOMAIN Catalogue |-> re_search(END_RE, Catalogue[k].text, FALSE) # None]
DateMatch == [k \in DOMAIN Catalogue |-> re_search(DATE_RE, Catalogue[k].text, FALSE)]

(***************************************************************************)
(* State                                                                   *)
(***************************************************************************)
VARIABLES
    doc,                      \* the soup of process_protocol
    period, index,            \* the arguments of process_protocol
    pc,                       \* where process_protocol / parse_protocol stands
    protocol_start,           \* position in doc of the start tag, 0 = None
    protocol_end,             \* position in doc of the end tag, 0 = None
    pos,                      \* position of the tag the loop last took, 0 before
    paragraphs,               \* parse_protocol's list of paragraph dicts
    section_meta_data,        \* the speaker attributes of the open section
    current_speaker,          \* position of the open section's tag, 0 = None
    previous_speaker,
    p_counter,
    speaker_section_counter,  \* 0 = None
    data,                     \* what parse_protocol returned, None before
    diag,                     \* the warnings printed so far
    error,                    \* the message of the raised exception, "" = none
    json_file                 \* the dumped protocol, None before

\* what lives outside one call of process_protocol
VARIABLES
    calls,                    \* the calls of process_protocol that have ended
    parked,                   \* the frame of the worker that is not running
    actions,                  \* feed_opensearch: the bulk actions of each load
    opensearch,               \* feed_opensearch: the documents of the index by _id
    argument,                 \* the text a function is called with on its own
    returned,                 \* what that call returned, None before
    max_document,             \* download_period's argument
    extension,                \* position in extensions of the running pass
    doc_index,                \* the i of download_period's inner loop
    failures,
    period_data,              \* download_period's data: the files recorded
    server,                   \* the URLs the server answers with status 200
    files,                    \* the files in PROTOCOL_DIR
    visited                   \* the (extension, i) the loop body has been run for

walker == <<pos, paragraphs, section_meta_data, current_speaker, previous_speaker,
            p_counter, speaker_section_counter>>
workers == <<calls, parked>>
feeder == <<actions, opensearch>>
pure == <<argument, returned>>
crawler == <<max_document, extension, doc_index, failures, period_data, server, files,
             visited>>
others == <<workers, feeder, pure, crawler>>
vars == <<doc, period, index, pc, protocol_start, protocol_end, pos, paragraphs,
          section_meta_data, current_speaker, previous_speaker, p_counter,
          speaker_section_counter, data, diag, error, json_file, others>>

NodeAt(i) == Catalogue[doc[i]]
\* tag == other: bs4 compares tags by name, attributes and contents
TagEq(i, j) == j # 0 /\ NodeAt(i) = NodeAt(j)

\* the least of a set of positions, 0 when it is empty
FirstOf(S) == IF S = {} THEN 0 ELSE CHOOSE i \in S : \A j \in S : i <= j

HasClass(node, name) == node.p /\ node.class # None /\ name \in Range(node.class[1])

\* soup.find('p', class_=name)
FindClass(name) == FirstOf({i \in DOMAIN doc : HasClass(NodeAt(i), name)})

\* Find the start node in the protocol; 0 in case this cannot be found
find_start ==
    LET first == FindClass(bBeginn)
        \* Second try: look for text
        begin_text == FirstOf({i \in DOMAIN doc : HasBeginText[doc[i]]})
    IN  IF first # 0 /\ HasBeginText[doc[first]] THEN first
        ELSE IF begin_text = 0 THEN 0
        \* Go back up to find the parent p tag; this may not find anything
        ELSE IF NodeAt(begin_text).p THEN begin_text ELSE 0

\* Find the end node in the protocol; 0 in case this cannot be found
find_end ==
    LET first == FindClass(sSchluss)
        end_text == FirstOf({i \in DOMAIN doc : HasEndText[doc[i]]})
    IN  IF first # 0 /\ HasEndText[doc[first]] THEN first
        ELSE IF end_text = 0 THEN 0
        ELSE IF NodeAt(end_text).p THEN end_text ELSE 0

\* the next tag of start_tag.find_all_next('p') after position i, 0 at the end
NextP(i) == FirstOf({j \in DOMAIN doc : j > i /\ NodeAt(j).p})

Say(cond, msg) == IF cond THEN <<msg>> ELSE <<>>

\* an exception that hands out the paragraphs built so far
RaiseReturning(msg) ==
    /\ pc' = "raised"
    /\ error' = msg
    /\ data' = <<paragraphs>>
    /\ UNCHANGED json_file

\* raise: the exception leaves parse_protocol and process_protocol
Raise(msg) ==
    /\ pc' = "raised"
    /\ error' = msg
    /\ UNCHANGED <<data, json_file>>

(***************************************************************************)
(* parse_protocol                                                          *)
(***************************************************************************)
\* FindStart without the test of lines 473-474
FindStartUnchecked ==
    /\ pc = "find_start"
    /\ protocol_start' = find_start
    /\ pc' = "find_end"
    /\ UNCHANGED <<others, doc, period, index, protocol_end, walker, diag, error, data, json_file>>

\* src lines 471-474
FindStart ==
    /\ pc = "find_start"
    /\ protocol_start' = find_start
    /\ IF protocol_start' = 0
       THEN Raise("Could not find start of protocol")
       ELSE pc' = "find_end" /\ UNCHANGED <<error, data, json_file>>
    /\ UNCHANGED <<others, doc, period, index, protocol_end, walker, diag>>

\* FindEnd with a paragraph counter that outlives the call
FindEndKeepsCounter ==
    /\ pc = "find_end"
    /\ protocol_end' = find_end
    /\ IF protocol_end' = 0
       THEN /\ Raise("Could not find end of protocol")
            /\ UNCHANGED walker
       ELSE /\ pc' = "walk"
            /\ paragraphs' = <<>>
            /\ section_meta_data' = EmptyDict
            /\ current_speaker' = 0
            /\ previous_speaker' = 0
            /\ p_counter' = p_counter
            /\ speaker_section_counter' = 0
            /\ pos' = protocol_start
            /\ UNCHANGED <<error, data, json_file>>
    /\ UNCHANGED <<others, doc, period, index, protocol_start, diag>>

\* FindEnd without the test of lines 478-479
FindEndUnchecked ==
    /\ pc = "find_end"
    /\ protocol_end' = find_end
    /\ pc' = "walk"
    /\ paragraphs' = <<>>
    /\ section_meta_data' = EmptyDict
    /\ current_speaker' = 0
    /\ previous_speaker' = 0
    /\ p_counter' = 1
    /\ speaker_section_counter' = 0
    /\ pos' = protocol_start
    /\ UNCHANGED <<others, doc, period, index, protocol_start, diag, error, data, json_file>>

\* src lines 476-489
FindEnd ==
    /\ pc = "find_end"
    /\ protocol_end' = find_end
    /\ IF protocol_end' = 0
       THEN /\ Raise("Could not find end of protocol")
            /\ UNCHANGED walker
       ELSE /\ pc' = "walk"
            /\ paragraphs' = <<>>
            /\ section_meta_data' = EmptyDict
            /\ current_speaker' = 0
            /\ previous_speaker' = 0
            /\ p_counter' = 1
            /\ speaker_section_counter' = 0
            /\ pos' = protocol_start
            /\ UNCHANGED <<error, data, json_file>>
    /\ UNCHANGED <<others, doc, period, index, protocol_start, diag>>

\* section attributes that lose the party
SectionOfMixed(paragraph) ==
    [k \in {"speaker_name", "speaker_party", "speaker_ministry", "speaker_role",
            "speaker_role_descr", "speaker_is_chair"} |->
        IF k = "speaker_party" THEN None ELSE paragraph[k]]

\* the six speaker attributes of a section (src lines 535-542)
SectionOf(paragraph) ==
    [k \in {"speaker_name", "speaker_party", "speaker_ministry", "speaker_role",
            "speaker_role_descr", "speaker_is_chair"} |-> paragraph[k]]

\* the paragraph of a tag that is no new speaker section (src lines 560-576);
\* ok = FALSE is the raised ParserError
OtherParagraph(p_classes, tag_text, meta) ==
    IF SPEECH_CLASSES \cap p_classes # {}
    THEN [ok |-> TRUE, d |-> parse_speech_paragraph(tag_text, meta)]
    ELSE IF ANNOTATION_CLASSES \cap p_classes # {}
    THEN [ok |-> TRUE, d |-> parse_annotation_paragraph(tag_text, meta)]
    ELSE IF CITATION_CLASSES \cap p_classes # {}
    THEN [ok |-> TRUE, d |-> parse_citation_paragraph(tag_text, meta)]
    ELSE [ok |-> FALSE]

\* a loop body that forgets the paragraph of the speaker intro
UsableParagraphNoIntro(opened, intro, p_classes, tag_text, meta) ==
    OtherParagraph(p_classes, tag_text, meta)

\* Parse other paragraph types (src lines 556-576): the paragraph of a new
\* speaker section is the one parse_speaker_intro returned
UsableParagraph(opened, intro, p_classes, tag_text, meta) ==
    IF opened
    THEN \* Already found a usable paragraph
         [ok |-> TRUE, d |-> intro.d]
    ELSE OtherParagraph(p_classes, tag_text, meta)

\* every failed speaker intro reported
ReportFailedIntroAlways(non_intro) == TRUE

\* whether a failed speaker intro is reported (src line 523)
ReportFailedIntro(non_intro) == verbose > 1 \/ ~non_intro

\* every failed speaker intro parsed as a standard paragraph
FallbackClassSpeech(tag_text) == <<"a","s","t","a","n","d","a","r","d","a","b","s","a","t","z">>

\* the class a failed speaker intro is given (src lines 528-531)
FallbackClass(tag_text) ==
    IF StartsWith(tag_text, <<"(">>) THEN <<"k","k","l","a","m","m","e","r">> ELSE <<"a","s","t","a","n","d","a","r","d","a","b","s","a","t","z">>

\* a new section that keeps the old counter
SectionCounterNoReset(opened, counter) == counter

\* speaker_section_counter after the speaker intro handling (src line 546)
SectionCounter(opened, counter) == IF opened THEN 1 ELSE counter

\* no skipping before the first speaker intro
BeforeFirstSpeakerNever(speaker) == FALSE

\* Skip all paragraphs until the first speaker intro (src line 551)
BeforeFirstSpeaker(speaker) == speaker = 0

\* Add paragraph without p_counter += 1
AddParagraphSameIndex(paragraph, p_classes, section_counter) ==
    /\ paragraphs' = Append(paragraphs,
                            Update(paragraph,
                                   [html_classes |-> p_classes,
                                    flow_index |-> p_counter,
                                    speaker_flow_index |-> section_counter]))
    /\ p_counter' = p_counter
    /\ speaker_section_counter' = section_counter + 1

\* Add paragraph (src lines 579-584)
AddParagraph(paragraph, p_classes, section_counter) ==
    /\ paragraphs' = Append(paragraphs,
                            Update(paragraph,
                                   [html_classes |-> p_classes,
                                    flow_index |-> p_counter,
                                    speaker_flow_index |-> section_counter]))
    /\ p_counter' = p_counter + 1
    /\ speaker_section_counter' = section_counter + 1

\* the end of the loop body (src lines 550-584): skip, add the paragraph, or
\* raise for a paragraph of no known class
EmitParagraph(speaker, usable, p_classes, section_counter, printed) ==
    IF BeforeFirstSpeaker(speaker)
    THEN /\ diag' = diag \o printed
                   \o Say(verbose > 1, "Skipping tag, since no speaker found yet")
         /\ speaker_section_counter' = section_counter
         /\ UNCHANGED <<pc, error, data, json_file, paragraphs, p_counter>>
    ELSE IF usable.ok
    THEN /\ AddParagraph(usable.d, p_classes, section_counter)
         /\ diag' = diag \o printed
         /\ UNCHANGED <<pc, error, data, json_file>>
    ELSE /\ Raise("Could not parse section")
         /\ diag' = diag \o printed
         /\ speaker_section_counter' = section_counter
         /\ UNCHANGED <<paragraphs, p_counter>>

\* the speaker intro handling (src lines 517-548) for the tag at position i,
\* opened or failed telling how parse_speaker_intro ended, and then the end
\* of the loop body
SpeakerSection(i, opened, failed, p_classes, tag_text, intro, non_intro, meta) ==
    /\ section_meta_data' = meta
    /\ current_speaker' = IF opened THEN i ELSE current_speaker
    /\ previous_speaker' = IF opened THEN current_speaker ELSE previous_speaker
    /\ EmitParagraph(IF opened THEN i ELSE current_speaker,
                     UsableParagraph(opened, intro, p_classes, tag_text, meta),
                     p_classes,
                     SectionCounter(opened, speaker_section_counter),
                     Say(opened /\ intro.short_name, "WARNING: Speaker name is too short")
                     \o Say(failed /\ ReportFailedIntro(non_intro),
                            "WARNING: Speaker intro paragraph without speaker information")
                     \o Say(opened /\ verbose > 0, "New speaker section"))

\* the loop body from "Parse paragraph" on (src lines 514-584) for the tag at
\* position i with lower-cased classes `classes`, fixed text tag_text, the
\* outcome intro of parse_speaker_intro and non_intro, whether the text
\* matches NON_SPEAKER_INTRO_RE
ParseParagraph(i, classes, tag_text, intro, non_intro) ==
    LET is_intro == SPEAKER_INTRO_CLASSES \cap classes # {}
    IN  SpeakerSection(i, is_intro /\ intro.ok, is_intro /\ ~intro.ok,
                       IF is_intro /\ ~intro.ok
                       THEN classes \cup {FallbackClass(tag_text)} ELSE classes,
                       tag_text, intro, non_intro,
                       IF is_intro /\ intro.ok
                       THEN SectionOf(intro.d) ELSE section_meta_data)

\* Find "Word" style class and convert to lower case for matching
LowerClasses(node) == {LowerStr(x) : x \in Range(node.class[1])}

\* Skip empty paragraphs and page numbering (src lines 504-509)
Skipped(k) == CleanedText[k] = <<>> \/ IsPageNumber[k]

\* the loop body for the tag at position i, which is not the end tag
\* (src lines 497-584)
LoopBody(i) ==
    /\ pos' = i
    /\ IF NodeAt(i).class = None
       THEN \* tag.get('class') is None and cannot be iterated
            /\ Raise("TypeError")
            /\ UNCHANGED <<paragraphs, section_meta_data, current_speaker,
                           previous_speaker, p_counter, speaker_section_counter, diag>>
       ELSE IF Skipped(doc[i])
       THEN UNCHANGED <<pc, error, data, json_file, paragraphs, section_meta_data,
                        current_speaker, previous_speaker, p_counter,
                        speaker_section_counter, diag>>
       ELSE ParseParagraph(i, LowerClasses(NodeAt(i)), FixedText[doc[i]],
                           IntroResult[doc[i]], IsNonIntro[doc[i]])

\* one pass of the loop over start_tag.find_all_next('p') that does not reach
\* the end tag (src lines 491-584)
WalkStep ==
    /\ pc = "walk"
    /\ NextP(pos) # 0
    /\ ~TagEq(NextP(pos), protocol_end)
    /\ LoopBody(NextP(pos))
    /\ UNCHANGED <<others, doc, period, index, protocol_start, protocol_end>>

\* the loop reaches the end tag: break, warn about an empty list and return
\* the paragraphs (src lines 493-495 and 589-591)
ReachEnd ==
    /\ pc = "walk"
    /\ NextP(pos) # 0
    /\ TagEq(NextP(pos), protocol_end)
    /\ pos' = NextP(pos)
    /\ diag' = diag \o Say(paragraphs = <<>>, "WARNING: No paragraphs parsed for this protocol !!!")
    /\ data' = Some(paragraphs)
    /\ pc' = "parsed"
    /\ UNCHANGED <<others, doc, period, index, protocol_start, protocol_end, paragraphs,
                   section_meta_data, current_speaker, previous_speaker, p_counter,
                   speaker_section_counter, error, json_file>>

\* the loop runs out of tags: the else clause of the for (src lines 586-587)
WalkExhausted ==
    /\ pc = "walk"
    /\ NextP(pos) = 0
    /\ Raise("Could not find end tag in protocol")
    /\ UNCHANGED <<others, doc, period, index, protocol_start, protocol_end, walker, diag>>

(***************************************************************************)
(* process_protocol                                                        *)
(***************************************************************************)
\* Return meta data to associate with the protocol
protocol_meta_data ==
    LET tag == FirstOf({i \in DOMAIN doc : DateMatch[doc[i]] # None})
        text == NodeAt(tag).text
        m == DateMatch[doc[tag]][1]
    IN  [protocol_date |->
             IF tag = 0 THEN None
             ELSE Some(Group(text, m, 4) \o <<"-">> \o Group(text, m, 3)
                       \o <<"-">> \o Group(text, m, 2)),
         protocol_title |-> <<"Landtag NRW - Plenarprotokoll", period, index>>,
         protocol_period |-> period,
         protocol_index |-> index,
         protocol_url |-> <<"MMP", period, index, "html">>]

\* Add protocol meta data and dump data as JSON (src lines 603-609)
DumpJson ==
    /\ pc = "parsed"
    /\ diag' = diag \o Say(protocol_meta_data.protocol_date = None,
                           "WARNING: Could not find protocol date in document")
    /\ json_file' = Some(Update(protocol_meta_data, [content |-> data[1]]))
    /\ pc' = "dumped"
    /\ UNCHANGED <<others, doc, period, index, protocol_start, protocol_end, walker, data, error>>

(***************************************************************************)
(* Specification                                                           *)
(***************************************************************************)
MaxBody == 3
MaxBoundary == 3

SeqsUpTo(S, n) == UNION {[1..m -> S] : m \in 0..n}

\* documents with the tagged start boundary first and the tagged end
\* boundary last, and between them paragraphs of every kind the walk tells
\* apart
WalkNodes == {3, 4, 5, 6, 7, 8, 9, 10, 11, 12, 13}
WalkDocs == {<<1>> \o w \o <<2>> : w \in SeqsUpTo(WalkNodes, MaxBody)}
\* documents of boundary candidates in any order: tagged and untagged
\* markers, tags without marker, markers outside any paragraph
BoundaryNodes == {1, 2, 3, 8, 14, 15, 16, 17, 18, 19}
BoundaryDocs == SeqsUpTo(BoundaryNodes, MaxBoundary)
\* documents whose end marker comes before the start, with and without the
\* same paragraph again after the body
EndFirstDocs ==
    UNION {{<<e, 1>> \o w, <<e, 1>> \o w \o <<e>>} :
             e \in {2, 18}, w \in SeqsUpTo({3, 8}, MaxBody)}

\* documents with blank paragraphs, with and without class attribute, and
\* with speaker intro paragraphs that carry a second class
MarkupNodes == {3, 20, 21, 22, 23}
MarkupDocs == {<<1>> \o w \o <<2>> : w \in SeqsUpTo(MarkupNodes, MaxBody)}

\* the programs and calls that a specification leaves out have not started
NoWorkers == calls = <<>> /\ parked = None
NoFeeder == actions = <<>> /\ opensearch = EmptyDict
NoCall == argument = None /\ returned = None
NoCrawler ==
    /\ max_document = 0
    /\ extension = 0
    /\ doc_index = 0
    /\ failures = 0
    /\ period_data = EmptyDict
    /\ server = {}
    /\ files = {}
    /\ visited = {}

Init ==
    /\ doc \in WalkDocs \cup BoundaryDocs \cup EndFirstDocs \cup MarkupDocs
    /\ period = 17
    /\ index = 31
    /\ pc = "find_start"
    /\ protocol_start = 0
    /\ protocol_end = 0
    /\ pos = 0
    /\ paragraphs = <<>>
    /\ section_meta_data = EmptyDict
    /\ current_speaker = 0
    /\ previous_speaker = 0
    /\ p_counter = 1
    /\ speaker_section_counter = 0
    /\ data = None
    /\ diag = <<>>
    /\ error = ""
    /\ json_file = None
    /\ NoWorkers
    /\ NoFeeder
    /\ NoCall
    /\ NoCrawler

Next ==
    \/ FindStart
    \/ FindEnd
    \/ WalkStep
    \/ ReachEnd
    \/ WalkExhausted
    \/ DumpJson

Spec == Init /\ [][Next]_vars

TypeOK == pc \in {"find_start", "find_end", "walk", "parsed", "dumped", "raised"}

(***************************************************************************)
(* main: one call of process_protocol after the other                      *)
(***************************************************************************)
MaxCalls == 3

\* the protocols of a period: an empty one, one section, a section with a
\* speech, with a paragraph of unknown class, a speech before the first
\* section, two sections, a failed speaker intro, a paragraph without class,
\* the end before the start
MainDocs ==
    {<<1, 2>>, <<1, 3, 2>>, <<1, 3, 8, 2>>, <<1, 3, 11, 2>>, <<1, 8, 3, 2>>,
     <<1, 3, 4, 9, 2>>, <<1, 3, 5, 2>>, <<1, 3, 13, 2>>, <<2, 1, 3>>}

\* how the running call of process_protocol has ended
Ended == pc \in {"dumped", "raised"}
Outcome == [doc |-> doc, error |-> error, data |-> data, diag |-> diag]

\* the next pass of main's loop (src lines 621-627): process_protocol has
\* returned and is called for the next file.  The locals of the new call
\* are unbound until the call assigns them; they keep the values of the last
\* call here.
NextProtocol ==
    /\ pc = "dumped"
    /\ Len(calls) + 1 < MaxCalls
    /\ calls' = Append(calls, Outcome)
    /\ doc' \in MainDocs
    /\ index' = index + 1
    /\ pc' = "find_start"
    /\ data' = None
    /\ json_file' = None
    /\ diag' = <<>>
    /\ UNCHANGED <<period, protocol_start, protocol_end, walker, error,
                   parked, feeder, pure, crawler>>

InitMain == Init /\ doc \in MainDocs
NextMain == Next \/ NextProtocol
SpecMain == InitMain /\ [][NextMain]_vars

\* no call of process_protocol is running
NoParser ==
    /\ doc = <<>>
    /\ period = 17
    /\ index = 31
    /\ pc = "none"
    /\ protocol_start = 0
    /\ protocol_end = 0
    /\ pos = 0
    /\ paragraphs = <<>>
    /\ section_meta_data = EmptyDict
    /\ current_speaker = 0
    /\ previous_speaker = 0
    /\ p_counter = 1
    /\ speaker_section_counter = 0
    /\ data = None
    /\ diag = <<>>
    /\ error = ""
    /\ json_file = None
parser == <<doc, period, index, pc, protocol_start, protocol_end, walker, data, diag,
            error, json_file>>

(***************************************************************************)
(* feed_opensearch: loading a dumped protocol into OpenSearch              *)
(***************************************************************************)
MaxLoads == 2

INDEX_NAME == "nrw_landtag_protocols"

\* '%i' % n
RECURSIVE Dec(_)
Dec(n) ==
    IF n < 10
    THEN <<<<"0", "1", "2", "3", "4", "5", "6", "7", "8", "9">>[n + 1]>>
    ELSE Dec(n \div 10) \o Dec(n % 10)

\* an ID made of the number the paragraph has within its speaker section
BulkIdInSection(protocol, paragraph) ==
    <<"p","-">> \o Dec(protocol.protocol_period) \o <<"-">> \o Dec(protocol.protocol_index)
    \o <<"-">> \o Dec(paragraph.speaker_flow_index)

\* 'p-%i-%i-%i' % (period, index, paragraph['flow_index']) (src line 65)
BulkId(protocol, paragraph) ==
    <<"p","-">> \o Dec(protocol.protocol_period) \o <<"-">> \o Dec(protocol.protocol_index)
    \o <<"-">> \o Dec(paragraph.flow_index)

\* Generator for inserting protocol paragraphs into OS: the sequence of the
\* dicts it yields (src lines 43-69)
bulk_insert_generator(protocol, index_name) ==
    LET content == protocol.content
        global_attributes == [k \in DOMAIN protocol \ {"content"} |-> protocol[k]]
    IN  [n \in DOMAIN content |->
            Update(Update([_op_type |-> "index",
                           _index |-> index_name,
                           _id |-> BulkId(protocol, content[n])],
                          global_attributes),
                   content[n])]

\* what OpenSearch holds after the bulk actions of one load: op_type 'index'
\* adds the document under its _id or replaces the one that is there, with a
\* version one higher
RECURSIVE Indexed(_, _)
Indexed(os, load) ==
    IF load = <<>> THEN os
    ELSE LET id == Head(load)._id
             version == IF id \in DOMAIN os THEN os[id]._version + 1 ELSE 1
         IN  Indexed([k \in DOMAIN os \cup {id} |->
                         IF k = id THEN [_version |-> version, _source |-> Head(load)]
                         ELSE os[k]],
                     Tail(load))

\* Load paragraphs of protocol period-index into OS (src lines 87-103), from
\* the JSON file that parse_data's process_protocol has written
FeedProtocol ==
    /\ pc = "dumped"
    /\ Len(actions) < MaxLoads
    /\ LET load == bulk_insert_generator(json_file[1], INDEX_NAME)
       IN  /\ actions' = Append(actions, load)
           /\ opensearch' = Indexed(opensearch, load)
    /\ UNCHANGED <<parser, workers, pure, crawler>>

NextFeed == Next \/ FeedProtocol
SpecFeed == Init /\ [][NextFeed]_vars

(***************************************************************************)
(* typo_fixes called on its own                                            *)
(***************************************************************************)
MaxCut == 2

\* texts that start with a typo of the table, with a typo that lacks its
\* last characters, or with the correction of a typo
TypoTails == {<<>>, <<" ","H","a","l","l","o",".">>}
TypoInputs ==
    UNION {{SubSeq(f[1], 1, Len(f[1]) - c) \o t, f[2] \o t} :
             f \in Range(TYPO_FIXES), c \in 0..MaxCut, t \in TypoTails}

CallTypoFixes ==
    /\ argument # None
    /\ returned = None
    /\ returned' = Some(typo_fixes(argument[1]))
    /\ UNCHANGED <<parser, workers, feeder, argument, crawler>>

InitTypoFixes ==
    /\ NoParser /\ NoWorkers /\ NoFeeder /\ NoCrawler
    /\ argument \in {Some(t) : t \in TypoInputs}
    /\ returned = None
NextTypoFixes == CallTypoFixes
SpecTypoFixes == InitTypoFixes /\ [][NextTypoFixes]_vars

(***************************************************************************)
(* parse_speaker_intro called on its own                                   *)
(***************************************************************************)
\* speaker intros made of a title, a name and what follows the name: the
\* colon, a party, a ministry, another office, or no colon at all
IntroTitles ==
    {<<>>, <<"P","r","a:","s","i","d","e","n","t"," ">>, <<"P","r","a:","s","i","d","e","n","t","i","n"," ">>, <<"V","i","z","e","p","r","a:","s","i","d","e","n","t"," ">>, <<"V","i","z","e","p","r","a:","s","i","d","e","n","t","i","n"," ">>,
     <<"M","i","n","i","s","t","e","r","p","r","a:","s","i","d","e","n","t"," ">>, <<"A","l","t","e","r","s","p","r","a:","s","i","d","e","n","t"," ">>, <<"G","e","s","c","h","a:","f","t","s","f","u:","h","r","e","n","d","e","r"," ","P","r","a:","s","i","d","e","n","t"," ">>,
     <<"G","e","s","c","h","a:","f","t","s","f","u:","h","r","e","n","d","e"," ","e","r","s","t","e"," ","V","i","z","e","p","r","a:","s","i","d","e","n","t","i","n"," ">>, <<"M","i","n","i","s","t","e","r","i","n"," ">>, <<"P","R","A:","S","I","D","E","N","T"," ">>,
     <<"F","r","a","u"," ">>, <<"H","e","r","r"," ">>}
IntroNames == {<<"C","a","r","i","n","a"," ","G","o:","d","e","c","k","e">>, <<"K","u","p","e","r">>}
IntroRests ==
    {<<":"," ","W","i","r"," ","b","e","g","i","n","n","e","n",".">>, <<" ","(","S","P","D",")",":"," ","D","a","n","k","e",".">>, <<","," ","M","i","n","i","s","t","e","r","i","n",":"," ","J","a",".">>,
     <<","," ","P","r","a:","s","i","d","e","n","t","i","n"," ","a",".","D",".",":"," ","N","e","i","n",".">>, <<" ","s","p","r","i","c","h","t",".">>, <<" ","(","z","u","r"," ","S","P","D"," ","g","e","w","a","n","d","t",")",":"," ","N","e","i","n",".">>}
IntroInputs ==
    {[title |-> t, name |-> n, rest |-> r] :
        t \in IntroTitles, n \in IntroNames, r \in IntroRests}
IntroText(a) == a.title \o a.name \o a.rest

CallSpeakerIntro ==
    /\ argument # None
    /\ returned = None
    /\ returned' = Some(parse_speaker_intro(IntroText(argument[1]), EmptyDict))
    /\ UNCHANGED <<parser, workers, feeder, argument, crawler>>

InitSpeakerIntro ==
    /\ NoParser /\ NoWorkers /\ NoFeeder /\ NoCrawler
    /\ argument \in {Some(a) : a \in IntroInputs}
    /\ returned = None
NextSpeakerIntro == CallSpeakerIntro
SpecSpeakerIntro == InitSpeakerIntro /\ [][NextSpeakerIntro]_vars

(***************************************************************************)
(* parse_speech_paragraph and parse_annotation_paragraph called on their   *)
(* own                                                                     *)
(***************************************************************************)
ParenHeads == {<<>>, <<"(">>, <<"(","(">>}
ParenBodies == {<<"B","e","i","f","a","l","l">>, <<"a">>, <<"x"," ","(","y">>, <<"Z","u","r","u","f"," ","v","o","n"," ","d","e","r"," ","S","P","D">>}
ParenTails == {<<>>, <<")">>, <<")",")">>}
ParenTexts == {h \o b \o t : h \in ParenHeads, b \in ParenBodies, t \in ParenTails}

CallSpeechParagraph ==
    /\ argument # None
    /\ argument[1].kind = "speech"
    /\ returned = None
    /\ returned' = Some(parse_speech_paragraph(argument[1].text, EmptyDict))
    /\ UNCHANGED <<parser, workers, feeder, argument, crawler>>

CallAnnotationParagraph ==
    /\ argument # None
    /\ argument[1].kind = "annotation"
    /\ returned = None
    /\ returned' = Some(parse_annotation_paragraph(argument[1].text, EmptyDict))
    /\ UNCHANGED <<parser, workers, feeder, argument, crawler>>

InitParagraphs ==
    /\ NoParser /\ NoWorkers /\ NoFeeder /\ NoCrawler
    /\ argument \in {Some([kind |-> k, text |-> t]) :
                        k \in {"speech", "annotation"}, t \in ParenTexts}
    /\ returned = None
NextParagraphs == CallSpeechParagraph \/ CallAnnotationParagraph
SpecParagraphs == InitParagraphs /\ [][NextParagraphs]_vars

(***************************************************************************)
(* src/load_data.py: download_period                                       *)
(***************************************************************************)
MAX_FAILURES == 10
\* the largest max_document download_period is called with
MaxDocument == 13

extensions == <<<<"h","t","m","l">>, <<"p","d","f">>, <<"d","o","c","x">>, <<"d","o","c">>>>

\* urllib.parse.urljoin(BASE_URL, f'MMP{period}-{index}.{extension}'), without
\* the BASE_URL all URLs start with
protocol_url(p, i, ext) == <<"M","M","P">> \o Dec(p) \o <<"-">> \o Dec(i) \o <<".">> \o ext

\* os.path.join(PROTOCOL_DIR, PROTOCOL_FILE_TEMPLATE % (period, i, extension))
ProtocolFile(p, i, ext) ==
    <<"p","r","o","t","o","c","o","l","s","/","p","r","o","t","o","c","o","l","-">> \o Dec(p) \o <<"-">> \o Dec(i) \o <<".">> \o ext

\* for i in range(1, max_document): the loop has run out, or has been left
\* with break
RangeDone == doc_index >= max_document
CutOff == failures > MAX_FAILURES
PassOver == RangeDone \/ CutOff
InPass == extension \in 1..Len(extensions) /\ ~PassOver

filename == ProtocolFile(period, doc_index, extensions[extension])
url == protocol_url(period, doc_index, extensions[extension])
AlreadyDownloaded == filename \in files /\ filename \in DOMAIN period_data

\* for extension in extensions: the next pass starts with failures = 0
\* (src lines 75-78)
StartPass ==
    /\ max_document > 0
    /\ extension < Len(extensions)
    /\ extension = 0 \/ PassOver
    /\ extension' = extension + 1
    /\ failures' = 0
    /\ doc_index' = 1
    /\ UNCHANGED <<parser, workers, feeder, pure, max_document, period_data, server, files,
                   visited>>

\* No need to download the file again (src lines 79-84)
SkipDownloaded ==
    /\ InPass
    /\ AlreadyDownloaded
    /\ visited' = visited \cup {<<extensions[extension], doc_index>>}
    /\ doc_index' = doc_index + 1
    /\ UNCHANGED <<parser, workers, feeder, pure, max_document, extension, failures,
                   period_data, server, files>>

\* response.status_code != 200 (src lines 85-97): with more than MAX_FAILURES
\* failures the loop is left and i stays
DownloadFailed ==
    /\ InPass
    /\ ~AlreadyDownloaded
    /\ url \notin server
    /\ visited' = visited \cup {<<extensions[extension], doc_index>>}
    /\ failures' = failures + 1
    /\ doc_index' = IF failures + 1 > MAX_FAILURES THEN doc_index ELSE doc_index + 1
    /\ UNCHANGED <<parser, workers, feeder, pure, max_document, extension, period_data,
                   server, files>>

\* a 200 response that leaves the failure counter as it is
DownloadedKeepsCount ==
    /\ InPass
    /\ ~AlreadyDownloaded
    /\ url \in server
    /\ visited' = visited \cup {<<extensions[extension], doc_index>>}
    /\ files' = files \cup {filename}
    /\ period_data' = Update(period_data,
                             [f \in {filename} |->
                                 [period |-> period, index |-> doc_index, url |-> url]])
    /\ doc_index' = doc_index + 1
    /\ UNCHANGED <<parser, workers, feeder, pure, max_document, extension, server, failures>>

\* status 200 (src lines 85-106): the file is written and recorded
Downloaded ==
    /\ InPass
    /\ ~AlreadyDownloaded
    /\ url \in server
    /\ visited' = visited \cup {<<extensions[extension], doc_index>>}
    /\ failures' = 0
    /\ files' = files \cup {filename}
    /\ period_data' = Update(period_data,
                             [f \in {filename} |->
                                 [period |-> period, index |-> doc_index, url |-> url]])
    /\ doc_index' = doc_index + 1
    /\ UNCHANGED <<parser, workers, feeder, pure, max_document, extension, server>>

\* return data (src line 107)
ReturnData ==
    /\ extension = Len(extensions)
    /\ PassOver
    /\ extension' = Len(extensions) + 1
    /\ UNCHANGED <<parser, workers, feeder, pure, max_document, doc_index, failures,
                   period_data, server, files, visited>>

\* the indices the server has documents for, per extension
Archives == {{}, {1}, {1, MAX_FAILURES + 2}}
\* the max_document values download_period is called with
MaxDocuments == {1, 2, MaxDocument - 1, MaxDocument}
\* what an earlier run has left: a file in PROTOCOL_DIR and its entry in the
\* period data, each of them there or not
EarlierFile == ProtocolFile(period, 2, extensions[1])
EarlierData ==
    [f \in {EarlierFile} |->
        [period |-> period, index |-> 2, url |-> protocol_url(period, 2, extensions[1])]]

InitCrawl ==
    /\ NoParser /\ NoWorkers /\ NoFeeder /\ NoCall
    /\ max_document \in MaxDocuments
    /\ extension = 0
    /\ doc_index = 0
    /\ failures = 0
    /\ period_data \in {EmptyDict, EarlierData}
    /\ files \in {{}, {EarlierFile}}
    /\ \E archive \in [DOMAIN extensions -> Archives] :
          server = UNION {{protocol_url(period, i, extensions[e]) : i \in archive[e]} :
                             e \in DOMAIN extensions}
    /\ visited = {}
NextCrawl == StartPass \/ SkipDownloaded \/ DownloadFailed \/ Downloaded \/ ReturnData
SpecCrawl == InitCrawl /\ [][NextCrawl]_vars

(***************************************************************************)
(* Two workers that call process_protocol side by side                     *)
(***************************************************************************)
\* what the running call owns: the arguments and locals of process_protocol
\* and parse_protocol and where the call stands
Frame ==
    [doc |-> doc, period |-> period, index |-> index, pc |-> pc,
     protocol_start |-> protocol_start, protocol_end |-> protocol_end, pos |-> pos,
     paragraphs |-> paragraphs, section_meta_data |-> section_meta_data,
     current_speaker |-> current_speaker, previous_speaker |-> previous_speaker,
     p_counter |-> p_counter, speaker_section_counter |-> speaker_section_counter,
     data |-> data, error |-> error, json_file |-> json_file]

\* the frame of a call that has not run yet
FreshFrame(soup, i) ==
    [doc |-> soup, period |-> period, index |-> i, pc |-> "find_start",
     protocol_start |-> 0, protocol_end |-> 0, pos |-> 0,
     paragraphs |-> <<>>, section_meta_data |-> EmptyDict,
     current_speaker |-> 0, previous_speaker |-> 0,
     p_counter |-> 1, speaker_section_counter |-> 0,
     data |-> None, error |-> "", json_file |-> None]

\* a paragraph counter that all calls share
SharedCounter(own, running) == running

\* p_counter is a local of parse_protocol (src line 487): the worker that
\* resumes finds its own value, not the one of the worker that ran last
OwnCounter(own, running) == own

\* after a call that ran alone, two workers start: one parses the same
\* document again, the other a document of its own
StartWorkers ==
    /\ Ended
    /\ parked = None
    /\ calls = <<>>
    /\ calls' = <<Outcome>>
    /\ \E soup \in MainDocs : parked' = Some(FreshFrame(soup, index + 1))
    /\ pc' = "find_start"
    /\ protocol_start' = 0
    /\ protocol_end' = 0
    /\ pos' = 0
    /\ paragraphs' = <<>>
    /\ section_meta_data' = EmptyDict
    /\ current_speaker' = 0
    /\ previous_speaker' = 0
    /\ p_counter' = 1
    /\ speaker_section_counter' = 0
    /\ data' = None
    /\ error' = ""
    /\ json_file' = None
    /\ diag' = <<>>
    /\ UNCHANGED <<doc, period, index, feeder, pure, crawler>>

\* the running worker is suspended and the other one resumes; what they
\* print goes to the same output
Switch ==
    /\ parked # None
    /\ parked[1].pc \notin {"dumped", "raised"}
    /\ parked' = Some(Frame)
    /\ doc' = parked[1].doc
    /\ period' = parked[1].period
    /\ index' = parked[1].index
    /\ pc' = parked[1].pc
    /\ protocol_start' = parked[1].protocol_start
    /\ protocol_end' = parked[1].protocol_end
    /\ pos' = parked[1].pos
    /\ paragraphs' = parked[1].paragraphs
    /\ section_meta_data' = parked[1].section_meta_data
    /\ current_speaker' = parked[1].current_speaker
    /\ previous_speaker' = parked[1].previous_speaker
    /\ p_counter' = OwnCounter(parked[1].p_counter, p_counter)
    /\ speaker_section_counter' = parked[1].speaker_section_counter
    /\ data' = parked[1].data
    /\ error' = parked[1].error
    /\ json_file' = parked[1].json_file
    /\ UNCHANGED <<calls, diag, feeder, pure, crawler>>

NextWorkers == Next \/ StartWorkers \/ Switch
SpecWorkers == InitMain /\ [][NextWorkers]_vars

(***************************************************************************)
(* Properties of the walk                                                  *)
(***************************************************************************)
ErrStart == "Could not find start of protocol"
ErrEnd == "Could not find end of protocol"
ErrEndTag == "Could not find end tag in protocol"
ErrSection == "Could not parse section"

Last(s) == s[Len(s)]
SpeakerFields(r) ==
    [k \in {"speaker_name", "speaker_party", "speaker_ministry", "speaker_role",
            "speaker_role_descr", "speaker_is_chair"} |-> r[k]]

\* the positions whose tag the loop body has been run for
Looped ==
    {j \in DOMAIN doc : protocol_start < j /\ j <= pos /\ NodeAt(j).p
                        /\ ~TagEq(j, protocol_end)}
\* the tag at position j is skipped as empty or as a page number
SkippedAt(j) == NodeAt(j).class # None /\ Skipped(doc[j])
IntroTagged(j) ==
    NodeAt(j).class # None /\ SPEAKER_INTRO_CLASSES \cap LowerClasses(NodeAt(j)) # {}
\* the tag at position j is a speaker intro that parse_speaker_intro accepts
Opens(j) == IntroTagged(j) /\ ~SkippedAt(j) /\ IntroResult[doc[j]].ok
\* the last position in start+1..j that opens a section, 0 if none does
LastOpen(j) ==
    LET S == {i \in DOMAIN doc : protocol_start < i /\ i <= j /\ NodeAt(i).p /\ Opens(i)}
    IN  IF S = {} THEN 0 ELSE CHOOSE i \in S : \A k \in S : k <= i
Untouched ==
    pos = 0 /\ paragraphs = <<>> /\ diag = <<>> /\ p_counter = 1 /\ current_speaker = 0

\* C1: the flow_index values of the records, in emission order, are exactly
\* 1, 2, ..., N, and a successful parse returns exactly these records.
C1_FlowIndexContiguous ==
    /\ \A k \in 1..Len(paragraphs) : paragraphs[k].flow_index = k
    /\ data # None => data = Some(paragraphs)
\* a parse that returned two records, a speaker intro and an annotation,
\* with a skipped paragraph between them
C1_Witness ==
    /\ data # None /\ Len(data[1]) = 2
    /\ \E j \in Looped : SkippedAt(j) /\ LastOpen(j) # 0
                          /\ \E i \in Looped : i > j /\ ~SkippedAt(i)
    /\ data[1][2].kind = "annotation"

\* C2: as long as no speaker intro has been parsed successfully
\* (current_speaker is None) the list of paragraphs is empty, and
\* current_speaker is None exactly as long as the loop has met no such intro.
C2_NoRecordBeforeFirstSpeaker ==
    /\ current_speaker = 0 => paragraphs = <<>>
    /\ current_speaker = 0 <=> LastOpen(pos) = 0
\* the loop has just passed a speech paragraph with text before any speaker
C2_Witness ==
    /\ pc = "walk" /\ current_speaker = 0 /\ pos > protocol_start
    /\ ~SkippedAt(pos)
    /\ SPEECH_CLASSES \cap LowerClasses(NodeAt(pos)) # {}
    /\ paragraphs = <<>>

\* what a step that adds a record does to speaker_flow_index
C3_Step ==
    Len(paragraphs') > Len(paragraphs) =>
        IF Opens(pos')
        THEN Last(paragraphs').speaker_flow_index = 1
        ELSE /\ paragraphs # <<>>
             /\ Last(paragraphs').speaker_flow_index
                  = Last(paragraphs).speaker_flow_index + 1
\* C3: every step that adds a record gives it speaker_flow_index 1 when its tag
\* opens a speaker section, and otherwise the previous record's value plus
\* one, also when the tag is a speaker intro that failed to parse.
C3_SpeakerFlowIndex == [][C3_Step]_vars
\* records numbered 1, 2, 1 in their sections, the second from a failed
\* speaker intro
C3_Witness ==
    /\ Len(paragraphs) = 3
    /\ [k \in 1..3 |-> paragraphs[k].speaker_flow_index] = <<1, 2, 1>>
    /\ {<<"r","r","e","d","n","e","r","k","o","p","f">>, <<"a","s","t","a","n","d","a","r","d","a","b","s","a","t","z">>} \subseteq paragraphs[2].html_classes

C5_Step ==
    /\ Len(paragraphs') >= Len(paragraphs)
    /\ SubSeq(paragraphs', 1, Len(paragraphs)) = paragraphs
    /\ Len(paragraphs') > Len(paragraphs) =>
          /\ LastOpen(pos') # 0
          /\ SpeakerFields(Last(paragraphs'))
               = SpeakerFields(IntroResult[doc[LastOpen(pos')]].d)
\* C5: no step ever changes the records already in the list, and the record
\* it adds carries the six speaker attributes of the section opened by the
\* last successful speaker intro at or before its tag.
C5_OneSectionPerRecord == [][C5_Step]_vars
\* two sections of different speakers, parties and roles, and in the second
\* a paragraph that is no speaker intro
C5_Witness ==
    /\ Len(paragraphs) = 3
    /\ pos # 0 /\ ~IntroTagged(pos)
    /\ paragraphs[1].speaker_name # paragraphs[2].speaker_name
    /\ paragraphs[1].speaker_party # paragraphs[2].speaker_party
    /\ paragraphs[1].speaker_role # paragraphs[2].speaker_role
    /\ SpeakerFields(paragraphs[3]) = SpeakerFields(paragraphs[2])

\* C6: once an exception is raised parse_protocol has returned nothing and
\* no JSON is written, whatever the list of paragraphs held; JSON is written
\* only after a parse without exception.
C6_NothingOnError ==
    /\ error # "" => (pc = "raised" /\ data = None /\ json_file = None)
    /\ pc = "raised" => error # ""
    /\ json_file # None => (error = "" /\ data # None)
\* a paragraph of no known class met after two records were built
C6_Witness ==
    /\ pc = "raised" /\ error = ErrSection
    /\ Len(paragraphs) >= 2
    /\ data = None /\ json_file = None

\* C7 as stated: a document with a start but no end tag ends with the
\* exception of the loop running out of tags.
C7_EndBoundaryNeverReached ==
    (find_start # 0 /\ find_end = 0 /\ pc \notin {"find_start", "find_end"})
        => (error = ErrEndTag /\ data = None)
\* C7, amended: a document without end tag ends with one of the two
\* exceptions raised before the loop ('Could not find end of protocol', or
\* 'Could not find start of protocol' when the start is missing too), with
\* no tag visited and no record built or returned.
C7_NoEndBoundaryNotFound ==
    (find_end = 0 /\ pc \notin {"find_start", "find_end"})
        => /\ pc = "raised"
           /\ error = IF find_start = 0 THEN ErrStart ELSE ErrEnd
           /\ pos = 0 /\ paragraphs = <<>> /\ data = None
\* a start tag followed by paragraphs but no end tag
C7_Witness ==
    /\ pc = "raised" /\ find_end = 0 /\ find_start # 0
    /\ NextP(find_start) # 0
    /\ Opens(NextP(find_start))

\* C8: a missing start tag raises 'Could not find start of protocol' without
\* the end being searched, a missing end tag with the start present raises
\* 'Could not find end of protocol', and with either exception no tag has
\* been visited, no warning printed and no record built.
C8_BoundaryNotFoundFirst ==
    /\ (find_start = 0 /\ pc # "find_start")
          => (pc = "raised" /\ error = ErrStart /\ protocol_end = 0)
    /\ (find_start # 0 /\ find_end = 0 /\ pc \notin {"find_start", "find_end"})
          => (pc = "raised" /\ error = ErrEnd)
    /\ error \in {ErrStart, ErrEnd} => Untouched
    /\ error = ErrStart => find_start = 0
    /\ error = ErrEnd => (find_start # 0 /\ find_end = 0)
\* neither boundary in a document of several paragraphs: the start is reported
C8_Witness ==
    /\ error = ErrStart /\ find_end = 0
    /\ Cardinality({j \in DOMAIN doc : NodeAt(j).p}) >= 2
    /\ Untouched

\* C9: a parse returns only when the loop has come to the end tag itself;
\* with the end tag before the start tag the parse ends with an exception;
\* no more records are returned than there are tags between start and end.
C9_SuccessOnlyAtEndNode ==
    /\ data # None => pos = protocol_end
    /\ (protocol_end # 0 /\ protocol_end < protocol_start /\ pc # "walk")
          => pc = "raised"
    /\ data # None =>
          Len(data[1]) <= Cardinality({j \in DOMAIN doc :
                              protocol_start < j /\ j < protocol_end /\ NodeAt(j).p})

\* the tag at position j is tagged as speaker intro, its fixed text matches
\* NON_SPEAKER_INTRO_RE and does not start with '('
GuardedIntro(j) ==
    /\ IntroTagged(j) /\ ~SkippedAt(j)
    /\ IsNonIntro[doc[j]]
    /\ ~StartsWith(FixedText[doc[j]], <<"(">>)
\* what the loop does with such a tag in an open section
C10_Step ==
    (/\ pc = "walk" /\ current_speaker # 0
     /\ NextP(pos) # 0 /\ ~TagEq(NextP(pos), protocol_end)
     /\ GuardedIntro(NextP(pos))
     /\ pos' = NextP(pos))
    => /\ diag' = diag
       /\ pc' = "walk"
       /\ current_speaker' = current_speaker
       /\ section_meta_data' = section_meta_data
       /\ Len(paragraphs') = Len(paragraphs) + 1
       /\ SubSeq(paragraphs', 1, Len(paragraphs)) = paragraphs
       /\ Last(paragraphs').kind = "speech"
       /\ Last(paragraphs').text = Some(FixedText[doc[pos']])
       /\ SpeakerFields(Last(paragraphs')) = section_meta_data
       /\ Last(paragraphs').speaker_flow_index = speaker_section_counter
       /\ Last(paragraphs').speaker_flow_index
            = Last(paragraphs).speaker_flow_index + 1
       /\ speaker_section_counter' = speaker_section_counter + 1
\* C10: when the loop passes such a tag with a speaker section open, it prints
\* nothing, keeps the section and its counter, and adds exactly one record:
\* a speech of the tag's text with the open section's attributes, numbered
\* one more than the record before it.
C10_GuardedIntroIsSpeech == [][C10_Step]_vars
\* the loop has just passed "Ich bitte um Ruhe." in an open section
C10_Witness ==
    /\ pc = "walk" /\ pos # 0 /\ GuardedIntro(pos)
    /\ FixedText[doc[pos]] = <<"I","c","h"," ","b","i","t","t","e"," ","u","m"," ","R","u","h","e",".">>
    /\ current_speaker # 0 /\ current_speaker < pos
    /\ Len(paragraphs) >= 2
    /\ Last(paragraphs).kind = "speech"
    /\ Last(paragraphs).speaker_flow_index >= 2
    /\ diag = <<>>

(***************************************************************************)
(* Paragraphs of no known class, blank paragraphs and failed speaker intros *)
(***************************************************************************)
ErrNoClass == "TypeError"

\* the lower-cased class tags of the tag at position j, none for a tag
\* without class attribute
ClassTags(j) == IF NodeAt(j).class = None THEN {} ELSE LowerClasses(NodeAt(j))
KnownClasses ==
    SPEAKER_INTRO_CLASSES \cup SPEECH_CLASSES \cup ANNOTATION_CLASSES \cup CITATION_CLASSES
\* the normalized text of the tag at position j is empty or a page number
BlankAt(j) == Skipped(doc[j])
\* a speaker section is open when the loop comes to position j
ActiveBefore(j) == j > 1 /\ LastOpen(j - 1) # 0

\* C11: a tag the loop body has been run for, with a speaker section open,
\* whose normalized text is neither empty nor a page number and whose class
\* tags are in none of the four class sets, has ended the parse with the
\* ParserError 'Could not parse section', with nothing returned and no record
\* added for it.
C11_UnclassifiableAborts ==
    \A j \in Looped :
        (ActiveBefore(j) /\ ~BlankAt(j) /\ ClassTags(j) \cap KnownClasses = {})
        => /\ pc = "raised" /\ error = ErrSection
           /\ pos = j
           /\ data = None /\ json_file = None

(***************************************************************************)
(* Repeated and interleaved calls                                          *)
(***************************************************************************)
\* the calls that have ended, the running one included
EndedCalls == Range(calls) \cup (IF Ended THEN {Outcome} ELSE {})

\* C12: any two calls of process_protocol for the same document in one run
\* of main end alike, whatever was parsed before them: both raise the same
\* error or both return the same paragraphs with the same flow_index and
\* speaker_flow_index, and they print the same warnings.
C12_SameInputSameOutput ==
    \A a \in EndedCalls : \A b \in EndedCalls : a.doc = b.doc => a = b
\* the third call parses the document of the first call again, with another
\* document in between, and has returned two paragraphs
C12_Witness ==
    /\ Len(calls) = 2 /\ pc = "dumped"
    /\ calls[1].doc = doc /\ calls[2].doc # doc
    /\ data # None /\ Len(data[1]) = 2
    /\ calls[2].data # None /\ Len(calls[2].data[1]) = 3

\* the two workers
Workers == IF parked = None THEN {} ELSE {Frame, parked[1]}

\* C13: however the steps of two workers are interleaved, a worker that
\* parses the document of the call that ran alone ends as that call did:
\* with the same error, or with the same paragraphs, flow_index and
\* speaker_flow_index included.
C13_NoInterference ==
    \A w \in Workers :
        (w.pc \in {"dumped", "raised"} /\ w.doc = calls[1].doc)
        => w.error = calls[1].error /\ w.data = calls[1].data
\* a worker has parsed the document of the first call to the end while the
\* other worker stood in the middle of another document
C13_Witness ==
    /\ parked # None
    /\ pc = "dumped" /\ doc = calls[1].doc /\ Len(data[1]) >= 2
    /\ parked[1].pc = "walk" /\ parked[1].doc # doc
    /\ Len(parked[1].paragraphs) >= 1
    /\ parked[1].pos < Len(parked[1].doc) - 1

(***************************************************************************)
(* typo_fixes                                                              *)
(***************************************************************************)
\* the text starts with no typo of the table
NoTypoAtStart(text) == \A f \in Range(TYPO_FIXES) : ~StartsWith(text, f[1])

\* C14: typo_fixes returns the text it was called with whenever that text
\* starts with none of the typos of TYPO_FIXES.
C14_NoTypoNoChange ==
    (returned # None /\ NoTypoAtStart(argument[1])) => returned[1] = argument[1]
\* typo_fixes has returned for a text that misses the typo 'Carina Gödeke'
\* by its last letter
C14_Witness ==
    /\ returned # None
    /\ argument[1] = <<"C","a","r","i","n","a"," ","G","o:","d","e","k"," ","H","a","l","l","o",".">>
    /\ NoTypoAtStart(argument[1])
    /\ returned = argument

(***************************************************************************)
(* The bulk actions of feed_opensearch                                     *)
(***************************************************************************)
\* the _id of every bulk action of a load, in the order of the load
Ids(load) == [n \in DOMAIN load |-> load[n]._id]

\* C15: every load of a dumped protocol yields one bulk action per paragraph,
\* the n-th with the _id 'p-17-31-<n-th flow_index>', no two actions of a
\* load with the same _id; all loads yield the same _ids in the same order,
\* and OpenSearch holds exactly one document per paragraph, whose version
\* counts the loads.
C15_StableDistinctIds ==
    \A n \in DOMAIN actions :
        LET load == actions[n]
            content == json_file[1].content
        IN  /\ DOMAIN load = DOMAIN content
            /\ \A k \in DOMAIN load :
                   /\ content[k].flow_index < 10
                   /\ load[k]._id
                        = <<"p","-","1","7","-","3","1","-">>
                          \o <<<<"1", "2", "3", "4", "5", "6", "7", "8", "9">>[content[k].flow_index]>>
            /\ \A k \in DOMAIN load : \A l \in DOMAIN load : load[k]._id = load[l]._id => k = l
            /\ Ids(load) = Ids(actions[1])
            /\ DOMAIN opensearch = Range(Ids(load))
            /\ Cardinality(DOMAIN opensearch) = Len(content)
            /\ \A id \in DOMAIN opensearch : opensearch[id]._version = Len(actions)
\* a protocol of three paragraphs in two speaker sections has been loaded
\* twice
C15_Witness ==
    /\ Len(actions) = 2
    /\ Len(actions[2]) = 3
    /\ actions[2][3].speaker_flow_index = 1
    /\ Cardinality(DOMAIN opensearch) = 3
    /\ \A id \in DOMAIN opensearch : opensearch[id]._version = 2

(***************************************************************************)
(* The chair                                                               *)
(***************************************************************************)
\* parse_speaker_intro has returned a paragraph for the text made of title,
\* name and rest
Recognized == returned # None /\ returned[1].ok
\* title and name match SPEAKER_IS_CHAIR_RE
ChairTitled(a) == re_match(SPEAKER_IS_CHAIR_RE, a.title \o a.name, TRUE) # None

\* C16: a recognized speaker is the chair exactly if the role returned is
\* president or vice-president and title and name match SPEAKER_IS_CHAIR_RE.
\* With the title 'Vizepräsidentin' and no ministry the role is
\* vice-president, the speaker is the chair and the name comes without the
\* title; with a ministry the role is minister and the speaker is not the
\* chair; a 'Ministerpräsident' is president without a ministry and never the
\* chair.
C16_ChairByRoleAndTitle ==
    Recognized =>
        LET a == argument[1]
            d == returned[1].d
        IN  /\ d.speaker_is_chair
               <=> (d.speaker_role \in {"president", "vice-president"} /\ ChairTitled(a))
            /\ (a.title = <<"V","i","z","e","p","r","a:","s","i","d","e","n","t","i","n"," ">> /\ d.speaker_ministry = None)
               => /\ d.speaker_role = "vice-president"
                  /\ d.speaker_is_chair
                  /\ d.speaker_name = Some(a.name)
            /\ d.speaker_ministry # None
               => d.speaker_role = "minister" /\ ~d.speaker_is_chair
            /\ a.title = <<"M","i","n","i","s","t","e","r","p","r","a:","s","i","d","e","n","t"," ">>
               => /\ ~d.speaker_is_chair
                  /\ d.speaker_ministry = None => d.speaker_role = "president"
\* 'Vizepräsidentin Carina Gödecke: Wir beginnen.' has been parsed
C16_Witness ==
    /\ Recognized
    /\ argument[1] = [title |-> <<"V","i","z","e","p","r","a:","s","i","d","e","n","t","i","n"," ">>, name |-> <<"C","a","r","i","n","a"," ","G","o:","d","e","c","k","e">>,
                      rest |-> <<":"," ","W","i","r"," ","b","e","g","i","n","n","e","n",".">>]
    /\ returned[1].d.speaker_is_chair
    /\ returned[1].d.speaker_role = "vice-president"
    /\ returned[1].d.speaker_name = Some(<<"C","a","r","i","n","a"," ","G","o:","d","e","c","k","e">>)
    /\ returned[1].d.text = Some(<<"W","i","r"," ","b","e","g","i","n","n","e","n",".">>)
(***************************************************************************)
(* C17                                                                     *)
(***************************************************************************)
\* C17: when a pass of download_period over one extension has run to the end
\* of its range without being cut off by the failures, the loop body has been
\* run for index max_document of that extension (the file was requested, or
\* skipped as already downloaded).
C17_CoversMaxDocument ==
    (extension \in 1..Len(extensions) /\ RangeDone /\ ~CutOff)
        => <<extensions[extension], max_document>> \in visited
(***************************************************************************)
(* C18, C19                                                                *)
(***************************************************************************)
\* the loop takes one more tag, which is not the end tag
TakesTag == pc = "walk" /\ NextP(pos) # 0 /\ ~TagEq(NextP(pos), protocol_end)
\* the loop body has left everything but the position as it was and the
\* parse goes on
Discarded ==
    /\ pos' = NextP(pos)
    /\ UNCHANGED <<paragraphs, section_meta_data, current_speaker, previous_speaker,
                   p_counter, speaker_section_counter>>
    /\ pc' = "walk"
    /\ error' = ""

\* C18: while no speaker section has been opened, a paragraph the loop takes
\* that is not a recognized speaker intro is discarded: no record, no change
\* of the counters or of the speaker state, and no error, whatever its class
\* tags are.
C18_Step == (TakesTag /\ current_speaker = 0 /\ ~Opens(NextP(pos))) => Discarded
C18_DiscardBeforeFirstSpeaker == [][C18_Step]_vars

\* C19: a paragraph whose cleaned text is empty or a page number is skipped:
\* the records, the counters and the speaker state stay as they are, nothing
\* is printed and no error is raised, whatever its class tags are.
C19_Step == (TakesTag /\ BlankAt(NextP(pos))) => (Discarded /\ diag' = diag)
C19_BlankIsSkipped == [][C19_Step]_vars
(***************************************************************************)
(* C20                                                                     *)
(***************************************************************************)
\* the tag at position j is a speaker intro that parse_speaker_intro rejects
FailedIntro(j) == IntroTagged(j) /\ ~SkippedAt(j) /\ ~IntroResult[doc[j]].ok
\* the loop takes a failed speaker intro while a speaker section is open
TakesFailedIntro == TakesTag /\ current_speaker # 0 /\ FailedIntro(NextP(pos))
InParens(j) == StartsWith(FixedText[doc[j]], <<"(">>)
SpeechTagged(j) == SPEECH_CLASSES \cap LowerClasses(NodeAt(j)) # {}
\* the step adds exactly one record, of the given kind
EmitsOne(kind) ==
    /\ Len(paragraphs') = Len(paragraphs) + 1
    /\ SubSeq(paragraphs', 1, Len(paragraphs)) = paragraphs
    /\ paragraphs'[Len(paragraphs')].kind = kind

\* C20 as stated: a failed speaker intro inside an open speaker section gives
\* exactly one record, an annotation if its text starts with '(' and a speech
\* otherwise, whatever other class tags the paragraph has.
C20_Step ==
    TakesFailedIntro
        => EmitsOne(IF InParens(NextP(pos)) THEN "annotation" ELSE "speech")
C20_FailedIntroKind == [][C20_Step]_vars

\* C20, amended: a failed speaker intro inside an open speaker section gives
\* exactly one record, an annotation if its text starts with '(' and the
\* paragraph has no class tag of the speech classes, and a speech otherwise.
C20_AmendedStep ==
    TakesFailedIntro
        => EmitsOne(IF InParens(NextP(pos)) /\ ~SpeechTagged(NextP(pos))
                    THEN "annotation" ELSE "speech")
C20_FailedIntroKindUnlessSpeech == [][C20_AmendedStep]_vars
\* '(Zuruf)' with the classes rRednerkopf and aStandardabsatz has failed as a
\* speaker intro inside a section and is the last record, a speech with the
\* class kklammer added
C20_Witness ==
    /\ pc = "walk"
    /\ pos > 0
    /\ current_speaker \notin {0, pos}
    /\ FailedIntro(pos) /\ InParens(pos) /\ SpeechTagged(pos)
    /\ paragraphs # <<>>
    /\ paragraphs[Len(paragraphs)].kind = "speech"
    /\ paragraphs[Len(paragraphs)].text = Some(<<"(","Z","u","r","u","f",")">>)
    /\ <<"k","k","l","a","m","m","e","r">> \in paragraphs[Len(paragraphs)].html_classes
(***************************************************************************)
(* C21                                                                     *)
(***************************************************************************)
\* text without one leading '(' and without one trailing ')'
OneParenOff(text) ==
    LET a == IF StartsWith(text, <<"(">>) THEN 2 ELSE 1
        b == IF text # <<>> /\ text[Len(text)] = ")" THEN Len(text) - 1 ELSE Len(text)
    IN  SubSeq(text, a, b)

\* C21: the text of an annotation paragraph is the paragraph's text with one
\* leading '(' and one trailing ')' taken off, if there, and then cleaned:
\* further parentheses stay.  The text of a speech paragraph is the
\* paragraph's text as it is.
C21_OneParenStripped ==
    returned # None =>
        /\ returned[1].kind = argument[1].kind
        /\ returned[1].text =
             IF argument[1].kind = "annotation"
             THEN clean_text(Some(OneParenOff(argument[1].text)))
             ELSE Some(argument[1].text)
(***************************************************************************)
(* C22                                                                     *)
(***************************************************************************)
Guarded(text) == re_match(NON_SPEAKER_INTRO_RE, text, FALSE) # None
\* one of the four speaker patterns matches the text
SomeRuleMatches(text) ==
    \E re \in {SPEAKER_NAME_RE, SPEAKER_PARTY_NAME_RE, MINISTER_NAME_RE, OTHER_ROLE_NAME_RE} :
        re_match(re, text, TRUE) # None

\* C22: a text that matches NON_SPEAKER_INTRO_RE is rejected as not a true
\* speaker intro, also when one of the four speaker patterns matches it: the
\* call returns no speaker attributes.
C22_GuardFirst ==
    (returned # None /\ Guarded(IntroText(argument[1])))
        => returned[1] = [ok |-> FALSE, error |-> "Paragraph is not a true speaker intro"]
\* 'Frau Carina Gödecke (SPD): Danke.', which the name and party patterns
\* match, has been rejected
C22_Witness ==
    /\ returned # None
    /\ argument[1] = [title |-> <<"F","r","a","u"," ">>, name |-> <<"C","a","r","i","n","a"," ","G","o:","d","e","c","k","e">>,
                      rest |-> <<" ","(","S","P","D",")",":"," ","D","a","n","k","e",".">>]
    /\ Guarded(IntroText(argument[1]))
    /\ SomeRuleMatches(IntroText(argument[1]))
    /\ ~returned[1].ok
(***************************************************************************)
(* C23                                                                     *)
(***************************************************************************)
\* the four speaker patterns in the order they are tried
Rules == <<SPEAKER_NAME_RE, SPEAKER_PARTY_NAME_RE, MINISTER_NAME_RE, OTHER_ROLE_NAME_RE>>
Matching(text) == {k \in DOMAIN Rules : re_match(Rules[k], text, TRUE) # None}
\* the match of the last pattern that matches
LastMatch(text) ==
    LET k == CHOOSE i \in Matching(text) : \A j \in Matching(text) : j <= i
    IN  re_match(Rules[k], text, TRUE)[1]
\* the name returned for a captured name: role prefix taken off, cleaned
ResolvedName(full) ==
    CleanStr(ParseRole([NoSpeaker EXCEPT !.speaker_name = Some(full)], full).speaker_name[1])

\* C23: for a text that passes the test for common errors, the call fails,
\* with 'Could not match speaker name', exactly if none of the four patterns
\* matches; otherwise the name and the speech text returned are those of the
\* last pattern, in the order name, name and party, name and ministry, name
\* and role, that matches.
C23_LastMatchWins ==
    (returned # None /\ ~Guarded(IntroText(argument[1]))) =>
        LET text == IntroText(argument[1])
        IN  /\ returned[1].ok <=> Matching(text) # {}
            /\ ~returned[1].ok => returned[1].error = "Could not match speaker name"
            /\ returned[1].ok =>
                 /\ returned[1].d.text = clean_text(Some(AfterMatch(text, LastMatch(text))))
                 /\ returned[1].d.speaker_name
                      = Some(ResolvedName(Group(text, LastMatch(text), 1)))
\* 'Kuper (zur SPD gewandt): Nein.' is matched by the name pattern, with the
\* speech 'Nein.', and by the name and party pattern, with the speech
\* 'SPD gewandt): Nein.', which is the one returned
C23_Witness ==
    /\ returned # None
    /\ argument[1] = [title |-> <<>>, name |-> <<"K","u","p","e","r">>,
                      rest |-> <<" ","(","z","u","r"," ","S","P","D"," ","g","e","w","a","n","d","t",")",":"," ","N","e","i","n",".">>]
    /\ Matching(IntroText(argument[1])) = {1, 2}
    /\ AfterMatch(IntroText(argument[1]),
                  re_match(SPEAKER_NAME_RE, IntroText(argument[1]), TRUE)[1]) = <<" ","N","e","i","n",".">>
    /\ returned[1].ok
    /\ returned[1].d.text = Some(<<"S","P","D"," ","g","e","w","a","n","d","t",")",":"," ","N","e","i","n",".">>)
    /\ returned[1].d.speaker_party = Some(<<"z","u","r">>)
(***************************************************************************)
(* C24                                                                     *)
(***************************************************************************)
\* the role of the prefix that the captured name starts with, "None" if it
\* starts with none
PrefixRole(full) ==
    IF re_match(PRESIDENT_RE, full, TRUE) # None THEN "president"
    ELSE IF re_match(VICE_PRESIDENT_RE, full, TRUE) # None THEN "vice-president"
    ELSE IF re_match(MINISTER_RE, full, TRUE) # None THEN "minister"
    ELSE "None"

\* C24: for a recognized speaker the role is minister if the name and
\* ministry pattern has captured a ministry, whatever prefix the name has;
\* otherwise the role of the prefix of the name, if it has one; otherwise
\* other if the name and role pattern has captured a role title; otherwise
\* none.  '<name>, Ministerin: Ja.' gives the name, the ministry
\* 'Ministerin', the role minister and the speech 'Ja.'.
C24_RoleResolution ==
    Recognized =>
        LET a == argument[1]
            text == IntroText(a)
            d == returned[1].d
            full == Group(text, LastMatch(text), 1)
        IN  /\ d.speaker_role =
                 IF 3 \in Matching(text) THEN "minister"
                 ELSE IF PrefixRole(full) # "None" THEN PrefixRole(full)
                 ELSE IF 4 \in Matching(text) THEN "other"
                 ELSE "None"
            /\ (a.title = <<>> /\ a.rest = <<","," ","M","i","n","i","s","t","e","r","i","n",":"," ","J","a",".">>)
                 => /\ d.speaker_name = Some(a.name)
                    /\ d.speaker_ministry = Some(<<"M","i","n","i","s","t","e","r","i","n">>)
                    /\ d.speaker_role = "minister"
                    /\ d.text = Some(<<"J","a",".">>)
\* 'Präsidentin Carina Gödecke, Ministerin: Ja.' has been parsed: the name
\* has the prefix of a president and the role is minister
C24_Witness ==
    /\ Recognized
    /\ argument[1] = [title |-> <<"P","r","a:","s","i","d","e","n","t","i","n"," ">>, name |-> <<"C","a","r","i","n","a"," ","G","o:","d","e","c","k","e">>,
                      rest |-> <<","," ","M","i","n","i","s","t","e","r","i","n",":"," ","J","a",".">>]
    /\ PrefixRole(Group(IntroText(argument[1]), LastMatch(IntroText(argument[1])), 1))
         = "president"
    /\ returned[1].d.speaker_ministry = Some(<<"M","i","n","i","s","t","e","r","i","n">>)
    /\ returned[1].d.speaker_role = "minister"
    /\ returned[1].d.speaker_name = Some(<<"C","a","r","i","n","a"," ","G","o:","d","e","c","k","e">>)
(***************************************************************************)
(* C25                                                                     *)
(***************************************************************************)
\* the entries visited once each in their order, each tested against the
\* text as rewritten so far
RECURSIVE CurrentFixes(_, _)
CurrentFixes(text, fixes) ==
    IF fixes = <<>> THEN text
    ELSE CurrentFixes(IF StartsWith(text, Head(fixes)[1])
                      THEN Head(fixes)[2] \o SubSeq(text, Len(Head(fixes)[1]) + 1, Len(text))
                      ELSE text,
                      Tail(fixes))

TaggedStarts == {i \in DOMAIN doc : HasClass(NodeAt(i), bBeginn) /\ HasBeginText[doc[i]]}
TaggedEnds == {i \in DOMAIN doc : HasClass(NodeAt(i), sSchluss) /\ HasEndText[doc[i]]}
\* the first node in document order whose text holds the marker
FirstBeginText == FirstOf({i \in DOMAIN doc : HasBeginText[doc[i]]})
FirstEndText == FirstOf({i \in DOMAIN doc : HasEndText[doc[i]]})
\* find_start, and find_end, have returned
StartSought == pc # "find_start"
EndSought == pc \notin {"find_start", "find_end"} /\ error # ErrStart

\* C26: when some paragraph carrying the bBeginn class holds the begin
\* marker, the start that find_start returns is a paragraph carrying that
\* class, whatever precedes it; only when there is none is it the first node
\* in document order whose text holds the marker.  Likewise for find_end with
\* the sSchluss class and the end marker.
C26_ClassTaggedPreferred ==
    /\ StartSought =>
          IF TaggedStarts # {}
          THEN protocol_start # 0 /\ HasClass(NodeAt(protocol_start), bBeginn)
          ELSE protocol_start \in {0, FirstBeginText}
    /\ EndSought =>
          IF TaggedEnds # {}
          THEN protocol_end # 0 /\ HasClass(NodeAt(protocol_end), sSchluss)
          ELSE protocol_end \in {0, FirstEndText}

(***************************************************************************)
(* The failure counter of download_period                                  *)
(***************************************************************************)
\* one run of the loop body for the index doc_index of the current pass
Iteration == extension \in DOMAIN extensions /\ extension' = extension /\ visited' # visited
\* the request of this iteration is answered with 200, or with another status
Answered200 == Iteration /\ ~AlreadyDownloaded /\ url \in server
AnsweredOther == Iteration /\ ~AlreadyDownloaded /\ url \notin server
C27_Step ==
    \* the counter starts at 0 in every pass
    /\ (extension' # extension /\ extension' \in DOMAIN extensions) => failures' = 0
    \* no index is worked on once the counter has exceeded MAX_FAILURES
    /\ Iteration => failures <= MAX_FAILURES
    /\ (Iteration /\ AlreadyDownloaded) =>
          /\ failures' = failures
          /\ period_data' = period_data
          /\ doc_index' = doc_index + 1
    /\ Answered200 =>
          /\ failures' = 0
          /\ DOMAIN period_data' = DOMAIN period_data \cup {filename}
          /\ period_data'[filename] = [period |-> period, index |-> doc_index, url |-> url]
          /\ \A f \in DOMAIN period_data \ {filename} : period_data'[f] = period_data[f]
          /\ doc_index' = doc_index + 1
    /\ AnsweredOther =>
          /\ failures' = failures + 1
          /\ period_data' = period_data
          \* the loop is left exactly with the MAX_FAILURES + 1-th failure in a row
          /\ doc_index' = IF failures = MAX_FAILURES THEN doc_index ELSE doc_index + 1
    \* the period data changes with a 200 response only
    /\ period_data' # period_data => Answered200

\* C27: within one extension pass of download_period the failure counter
\* counts the failed requests in a row: a 200 response sets it to 0, an index
\* skipped as already downloaded leaves it as it is, the pass is left with
\* the request that is the MAX_FAILURES + 1-th failure in a row and not
\* before, the counter is 0 again when the next extension starts, and the
\* period data gains an entry with a 200 response only.
C27_ConsecutiveFailures == [][C27_Step]_vars
\* the pdf pass has been left with MAX_FAILURES + 1 failures after the 200
\* response for its index 1, and the html pass before it has skipped index 2
\* after the failure at index 1
C27_Witness ==
    /\ extension = 2
    /\ failures = MAX_FAILURES + 1
    /\ ProtocolFile(period, 1, extensions[2]) \in DOMAIN period_data
    /\ EarlierFile \in files \cap DOMAIN period_data
    /\ ProtocolFile(period, 1, extensions[1]) \notin DOMAIN period_data
    /\ <<extensions[1], 2>> \in visited
====
